---- MODULE Spec2Model ----
(***************************************************************************)
(* State-machine model of the modal editing session of midetor             *)
(* (src/src/app.rs, struct App and App::handle_input) and of the event     *)
(* loop that drives it (src/src/main.rs).                                   *)
(*                                                                         *)
(* Conventions.  Rows and columns are 0-based as in the code; TLA+         *)
(* sequences are 1-based, so row r of the document is lines[r + 1].  A     *)
(* line is a sequence of characters, a character is a one-element token    *)
(* (a string); Utf8Len gives the number of bytes of its UTF-8 encoding, so *)
(* character columns and byte offsets differ on lines holding WideChar.    *)
(* Option<T> is a sequence: None is <<>>, Some(v) is <<v>>.                *)
(***************************************************************************)
EXTENDS Integers, Sequences, FiniteSets, TLC

VARIABLES
    mode,             \* App.mode
    textarea,         \* App.textarea: lines, cursor, selection_start, edit history
    key_sequence,     \* App.key_sequence
    status,           \* App.status (the fixed part of the message)
    yanked,           \* App.yanked
    visual_anchor,    \* App.visual_anchor
    insert_position,  \* App.insert_position
    block_insert_col, \* App.block_insert_col
    history,          \* App.history: sequence of <<path, file_id>>
    history_index,    \* App.history_index (0-based)
    file,             \* <<App.file_path, App.file_id>>
    completion_state, \* App.completion_state
    search_state,     \* App.search_state
    tag_files,        \* App.tag_files, with tag_files_state's selection
    command,          \* App.command
    prev_mode,        \* App.prev_mode
    tree,             \* App.visible_items, tree_state, tree_visual_anchor
    tags,             \* App.tags
    backlinks,        \* App.backlinks
    view,             \* App.view
    should_quit,      \* App.should_quit
    disk,             \* the documents on disk: file id -> lines
    event,            \* the key event of the last handle_input call
    result,           \* what that call did: "Ok", "Err" or "Panic" (main stops on the last two)
    pre,              \* the session as it was when that key event was delivered
    probe             \* observer of one insert/undo round trip (see RoundTrip)

app == <<mode, textarea, key_sequence, status, yanked, visual_anchor,
         insert_position, block_insert_col, history, history_index, file,
         completion_state, search_state, tag_files, command, prev_mode, tree,
         tags, backlinks, view, should_quit, disk>>
vars == <<app, event, result, pre, probe>>

(***************************************************************************)
(* Bounds of the model.                                                    *)
(***************************************************************************)
MaxLineLen == 4     \* no key makes a line longer than this
MaxLines == 3       \* no key makes the document longer than this
MaxEdits == 6       \* edits kept in the text area's undo history
MaxNav == 3         \* entries of the navigation history

(***************************************************************************)
(* Options, characters, bytes.                                             *)
(***************************************************************************)
None == <<>>
Some(v) == <<v>>
IsSome(o) == o # <<>>
Unwrap(o) == o[1]

Min(a, b) == IF a <= b THEN a ELSE b
Max(a, b) == IF a >= b THEN a ELSE b

\* The one two-byte character of the model's alphabet (U+00E9).
WideChar == "U+00E9"
Utf8Len(c) == IF c = WideChar THEN 2 ELSE 1

\* String::len(): the length in bytes.
RECURSIVE ByteLen(_)
ByteLen(s) == IF s = <<>> THEN 0 ELSE Utf8Len(Head(s)) + ByteLen(Tail(s))

\* The first n characters of s, and s without them (n clamped).
Take(s, n) == SubSeq(s, 1, Min(n, Len(s)))
Drop(s, n) == SubSeq(s, Min(n, Len(s)) + 1, Len(s))

\* line.char_indices().nth(col).map(|(b, _)| b): the byte offset of character
\* col, None when the line has no character col.
CharIndexNth(line, col) ==
    IF col < Len(line) THEN Some(ByteLen(Take(line, col))) ELSE None

\* .unwrap_or(line.len()) and .unwrap_or(0): the two defaults the code uses.
ByteOfColOrLen(line, col) ==
    IF IsSome(CharIndexNth(line, col)) THEN Unwrap(CharIndexNth(line, col))
    ELSE ByteLen(line)
ByteOfColOrZero(line, col) ==
    IF IsSome(CharIndexNth(line, col)) THEN Unwrap(CharIndexNth(line, col))
    ELSE 0

\* Whether byte offset b is a character boundary of line (str::is_char_boundary).
IsCharBoundary(line, b) ==
    \E n \in 0..Len(line) : ByteLen(Take(line, n)) = b

\* The number of characters that end at or before byte offset b.
CharsBefore(line, b) ==
    Cardinality({n \in 1..Len(line) : ByteLen(Take(line, n)) <= b})

\* &line[a..b] for byte offsets a, b: defined (no panic) when both are
\* character boundaries and a <= b.
SliceOk(line, a, b) ==
    a <= b /\ IsCharBoundary(line, a) /\ IsCharBoundary(line, b)
ByteSlice(line, a, b) ==
    SubSeq(line, CharsBefore(line, a) + 1, CharsBefore(line, b))

\* s.starts_with(p)
StartsWith(s, p) == Len(p) <= Len(s) /\ SubSeq(s, 1, Len(p)) = p
\* s.ends_with(p)
EndsWith(s, p) == Len(p) <= Len(s) /\ SubSeq(s, Len(s) - Len(p) + 1, Len(s)) = p

(***************************************************************************)
(* The text area (tui_textarea::TextArea): the document lines, the cursor, *)
(* the selection start of shifted cursor movement and the edit history.    *)
(* An edit is recorded by the lines and cursor before and after it, which  *)
(* is what undoing or redoing it installs.                                 *)
(***************************************************************************)
Line(ta, r) == ta.lines[r + 1]

\* TextArea::new(lines): at least one line, cursor (0, 0), empty history.
TextAreaNew(ls) ==
    [lines |-> IF ls = <<>> THEN << <<>> >> ELSE ls,
     cursor |-> <<0, 0>>,
     selection_start |-> None,
     edits |-> <<>>,
     edit_index |-> 0]

FitCol(col, line) == Min(col, Len(line))

\* CursorMove::next_cursor: the cursor a move leads to, None when it cannot move.
NextCursor(ta, m) ==
    LET row == ta.cursor[1]
        col == ta.cursor[2]
        n == Len(ta.lines)
    IN CASE m = "Forward" ->
              IF col >= Len(Line(ta, row))
              THEN (IF row + 1 < n THEN Some(<<row + 1, 0>>) ELSE None)
              ELSE Some(<<row, col + 1>>)
         [] m = "Back" ->
              IF col = 0
              THEN (IF row > 0 THEN Some(<<row - 1, Len(Line(ta, row - 1))>>) ELSE None)
              ELSE Some(<<row, col - 1>>)
         [] m = "Up" ->
              IF row > 0 THEN Some(<<row - 1, FitCol(col, Line(ta, row - 1))>>) ELSE None
         [] m = "Down" ->
              IF row + 1 < n THEN Some(<<row + 1, FitCol(col, Line(ta, row + 1))>>) ELSE None
         [] m = "Head" -> Some(<<row, 0>>)
         [] m = "End" -> Some(<<row, Len(Line(ta, row))>>)
         [] m = "Top" -> Some(<<0, FitCol(col, Line(ta, 0))>>)
         [] m = "Bottom" -> Some(<<n - 1, FitCol(col, Line(ta, n - 1))>>)

\* CursorMove::Jump(row, col): clamped to the document and to the line.
JumpTarget(ta, r, c) ==
    LET row == Min(r, Len(ta.lines) - 1)
    IN Some(<<row, FitCol(c, Line(ta, row))>>)

\* TextArea::move_cursor_with_shift: a move that is possible starts (shift) or
\* cancels (no shift) the selection and then moves.
MoveWithShift(ta, target, shift) ==
    IF target = None THEN ta
    ELSE [ta EXCEPT
            !.selection_start =
                IF shift THEN (IF @ = None THEN Some(ta.cursor) ELSE @) ELSE None,
            !.cursor = Unwrap(target)]

\* TextArea::move_cursor: keeps a selection that is under way.
MoveCursor(ta, m) == MoveWithShift(ta, NextCursor(ta, m), IsSome(ta.selection_start))
MoveCursorJump(ta, r, c) ==
    MoveWithShift(ta, JumpTarget(ta, r, c), IsSome(ta.selection_start))

CancelSelection(ta) == [ta EXCEPT !.selection_start = None]

PosLess(a, b) == a[1] < b[1] \/ (a[1] = b[1] /\ a[2] < b[2])

\* TextArea::selection_range: the selection start and the cursor, in order.
SelectionRange(ta) ==
    IF ta.selection_start = None THEN None
    ELSE LET s == Unwrap(ta.selection_start)
         IN IF PosLess(ta.cursor, s) THEN Some(<<ta.cursor, s>>) ELSE Some(<<s, ta.cursor>>)

\* History::push: drops the redo tail, appends the edit.
PushEdit(ta, newLines, newCursor) ==
    [ta EXCEPT
        !.lines = newLines,
        !.cursor = newCursor,
        !.edits = Append(SubSeq(ta.edits, 1, ta.edit_index),
                         [before |-> ta.lines, cursor_before |-> ta.cursor,
                          after |-> newLines, cursor_after |-> newCursor]),
        !.edit_index = ta.edit_index + 1]

\* The lines with the text from position s up to position e removed.
RemoveRange(ls, s, e) ==
    SubSeq(ls, 1, s[1])
    \o << Take(ls[s[1] + 1], s[2]) \o Drop(ls[e[1] + 1], e[2]) >>
    \o SubSeq(ls, e[1] + 2, Len(ls))

\* TextArea::delete_selection: true (HasSelectedText) when text was selected;
\* the selection is over either way.
HasSelectedText(ta) ==
    IsSome(ta.selection_start) /\ Unwrap(ta.selection_start) # ta.cursor
DeleteSelection(ta) ==
    IF ~HasSelectedText(ta) THEN CancelSelection(ta)
    ELSE LET r == Unwrap(SelectionRange(ta))
         IN PushEdit(CancelSelection(ta), RemoveRange(ta.lines, r[1], r[2]), r[1])

\* TextArea::insert_newline
InsertNewline(ta) ==
    LET t == DeleteSelection(ta)
        row == t.cursor[1]
        col == t.cursor[2]
    IN PushEdit(t,
                SubSeq(t.lines, 1, row)
                \o << Take(Line(t, row), col), Drop(Line(t, row), col) >>
                \o SubSeq(t.lines, row + 2, Len(t.lines)),
                <<row + 1, 0>>)

\* TextArea::insert_char
InsertChar(ta, c) ==
    IF c = "\n" THEN InsertNewline(ta)
    ELSE LET t == DeleteSelection(ta)
             row == t.cursor[1]
             col == t.cursor[2]
         IN PushEdit(t,
                     [t.lines EXCEPT ![row + 1] =
                         Take(@, col) \o <<c>> \o Drop(@, col)],
                     <<row, col + 1>>)

\* TextArea::insert_str of a text given as the lines it splits into at '\n'
\* (one line: insert_piece, nothing to do for an empty piece; more: insert_chunk).
InsertStr(ta, chunk) ==
    LET t == DeleteSelection(ta)
        row == t.cursor[1]
        col == t.cursor[2]
        n == Len(chunk)
    IN IF n = 1
       THEN (IF chunk[1] = <<>> THEN t
             ELSE PushEdit(t,
                           [t.lines EXCEPT ![row + 1] =
                               Take(@, col) \o chunk[1] \o Drop(@, col)],
                           <<row, col + Len(chunk[1])>>))
       ELSE PushEdit(t,
                     SubSeq(t.lines, 1, row)
                     \o << Take(Line(t, row), col) \o chunk[1] >>
                     \o SubSeq(chunk, 2, n - 1)
                     \o << chunk[n] \o Drop(Line(t, row), col) >>
                     \o SubSeq(t.lines, row + 2, Len(t.lines)),
                     <<row + n - 1, Len(chunk[n])>>)

\* TextArea::delete_char (Backspace): the selected text, else the character
\* before the cursor, else (column 0) the line break before the line.
DeleteChar(ta) ==
    IF HasSelectedText(ta) THEN DeleteSelection(ta)
    ELSE LET t == CancelSelection(ta)
             row == t.cursor[1]
             col == t.cursor[2]
         IN IF col > 0
            THEN PushEdit(t,
                          [t.lines EXCEPT ![row + 1] =
                              Take(@, col - 1) \o Drop(@, col)],
                          <<row, col - 1>>)
            ELSE IF row = 0 THEN t
            ELSE PushEdit(t,
                          SubSeq(t.lines, 1, row - 1)
                          \o << Line(t, row - 1) \o Line(t, row) >>
                          \o SubSeq(t.lines, row + 2, Len(t.lines)),
                          <<row - 1, Len(Line(t, row - 1))>>)

\* TextArea::delete_next_char: moves forward and deletes backward.
DeleteNextChar(ta) ==
    IF HasSelectedText(ta) THEN DeleteSelection(ta)
    ELSE LET t == CancelSelection(ta)
         IN IF NextCursor(t, "Forward") = None THEN t
            ELSE DeleteChar(MoveWithShift(t, NextCursor(t, "Forward"), FALSE))

\* TextArea::delete_line_by_end: the selected text, else the rest of the line,
\* else (cursor at the end of the line) the next character, the line break.
DeleteLineByEnd(ta) ==
    IF HasSelectedText(ta) THEN DeleteSelection(ta)
    ELSE LET t == CancelSelection(ta)
             row == t.cursor[1]
             col == t.cursor[2]
         IN IF col < Len(Line(t, row))
            THEN PushEdit(t, [t.lines EXCEPT ![row + 1] = Take(@, col)], <<row, col>>)
            ELSE DeleteNextChar(t)

\* TextArea::undo / redo; CanUndo / CanRedo are what they return.
CanUndo(ta) == ta.edit_index > 0
Undo(ta) ==
    IF ~CanUndo(ta) THEN ta
    ELSE [ta EXCEPT
            !.lines = ta.edits[ta.edit_index].before,
            !.cursor = ta.edits[ta.edit_index].cursor_before,
            !.selection_start = None,
            !.edit_index = ta.edit_index - 1]
CanRedo(ta) == ta.edit_index < Len(ta.edits)
Redo(ta) ==
    IF ~CanRedo(ta) THEN ta
    ELSE [ta EXCEPT
            !.lines = ta.edits[ta.edit_index + 1].after,
            !.cursor = ta.edits[ta.edit_index + 1].cursor_after,
            !.selection_start = None,
            !.edit_index = ta.edit_index + 1]

\* The sizes the model keeps a text area within.
Fits(ta) ==
    /\ Len(ta.lines) <= MaxLines
    /\ \A i \in 1..Len(ta.lines) : Len(ta.lines[i]) <= MaxLineLen
    /\ Len(ta.edits) <= MaxEdits

(***************************************************************************)
(* The collaborators: the files table of the database, the documents on    *)
(* disk and the indexer.  Each handle_input call gets one outcome io:      *)
(* io.fail names the collaborator call that fails in it ("none": none),    *)
(* io.rows the number of rows a search query of the call returns.          *)
(***************************************************************************)
\* The files table: <<file_name, id>>; the first is the document the session
\* starts with, the next three are the dated notes of today, yesterday, tomorrow.
AllFiles == << <<"note", 1>>, <<"today", 2>>, <<"yesterday", 3>>, <<"tomorrow", 4>> >>
FileIdOf(name) == (CHOOSE i \in 1..Len(AllFiles) : AllFiles[i][1] = name)
PathOf(id) == AllFiles[id][1]

\* The documents on disk when the session starts with the lines doc: the
\* other documents are empty.
DiskWith(doc) == [id \in 1..Len(AllFiles) |-> IF id = 1 THEN doc ELSE <<>>]

NoCompletion ==
    [active |-> FALSE, completion_type |-> "None", query |-> <<>>,
     suggestions |-> <<>>, selected |-> None, trigger_start |-> <<0, 0>>]
NoSearch ==
    [active |-> FALSE, search_type |-> "None", query |-> <<>>,
     results |-> <<>>, selected |-> None]
NoTagFiles == [files |-> <<>>, selected |-> None]
NoTree ==
    [visible_items |-> <<>>, selected |-> None, visual_anchor |-> None,
     sort_by |-> "Name", sort_asc |-> TRUE,
     yanked_paths |-> <<>>, buffer_mode |-> None, removed |-> {}]

\* The session as one record (struct App), with the Result of the call.
Cur ==
    [mode |-> mode, textarea |-> textarea, key_sequence |-> key_sequence,
     status |-> status, yanked |-> yanked, visual_anchor |-> visual_anchor,
     insert_position |-> insert_position, block_insert_col |-> block_insert_col,
     history |-> history, history_index |-> history_index, file |-> file,
     completion_state |-> completion_state, search_state |-> search_state,
     tag_files |-> tag_files, command |-> command, prev_mode |-> prev_mode,
     tree |-> tree, tags |-> tags, backlinks |-> backlinks, view |-> view,
     should_quit |-> should_quit, disk |-> disk, result |-> "Ok"]

Install(s) ==
    /\ mode' = s.mode
    /\ textarea' = s.textarea
    /\ key_sequence' = s.key_sequence
    /\ status' = s.status
    /\ yanked' = s.yanked
    /\ visual_anchor' = s.visual_anchor
    /\ insert_position' = s.insert_position
    /\ block_insert_col' = s.block_insert_col
    /\ history' = s.history
    /\ history_index' = s.history_index
    /\ file' = s.file
    /\ completion_state' = s.completion_state
    /\ search_state' = s.search_state
    /\ tag_files' = s.tag_files
    /\ command' = s.command
    /\ prev_mode' = s.prev_mode
    /\ tree' = s.tree
    /\ tags' = s.tags
    /\ backlinks' = s.backlinks
    /\ view' = s.view
    /\ should_quit' = s.should_quit
    /\ disk' = s.disk
    /\ result' = s.result

\* `?` on a failed call: the function returns Err with what it has done so far.
Err(s) == [s EXCEPT !.result = "Err"]

\* An index out of bounds: the process panics.
Panic(s) == [s EXCEPT !.result = "Panic"]

\* App::load_tags / App::load_backlinks of a document (what the index holds).
TagsOf(id) == IF id = 1 THEN <<"tag">> ELSE <<>>
\* The first note links to the note "today" with the text "b".
BacklinksOf(id) == IF id = 1 THEN << << <<"b">>, 2 >> >> ELSE <<>>

\* open_file loading the lines into the text area it finds, history and all.
open_file_keeps_history(s, path, file_id, io) ==
    LET s1 == [s EXCEPT !.file = <<path, file_id>>,
                        !.textarea = [@ EXCEPT !.lines = TextAreaNew(s.disk[file_id]).lines,
                                               !.cursor = <<0, 0>>,
                                               !.selection_start = None],
                        !.completion_state = NoCompletion]
    IN IF io.fail \in {"load_tags", "load_backlinks"} THEN Err(s1)
       ELSE [s1 EXCEPT !.tags = TagsOf(file_id),
                       !.backlinks = BacklinksOf(file_id),
                       !.view = "Editor",
                       !.mode = "Normal",
                       !.status = "Normal"]

\* open_file with nothing assigned before the tags and backlinks are loaded.
open_file_loads_first(s, path, file_id, io) ==
    IF io.fail \in {"load_tags", "load_backlinks"} THEN Err(s)
    ELSE [s EXCEPT !.file = <<path, file_id>>,
                   !.textarea = TextAreaNew(s.disk[file_id]),
                   !.completion_state = NoCompletion,
                   !.tags = TagsOf(file_id),
                   !.backlinks = BacklinksOf(file_id),
                   !.view = "Editor",
                   !.mode = "Normal",
                   !.status = "Normal"]

\* App::open_file
open_file(s, path, file_id, io) ==
    LET s1 == [s EXCEPT !.file = <<path, file_id>>,
                        !.textarea = TextAreaNew(s.disk[file_id]),
                        !.completion_state = NoCompletion]
    IN IF io.fail = "load_tags" THEN Err(s1)
       ELSE IF io.fail = "load_backlinks"
       THEN Err([s1 EXCEPT !.tags = TagsOf(file_id)])
       ELSE [s1 EXCEPT !.tags = TagsOf(file_id),
                       !.backlinks = BacklinksOf(file_id),
                       !.view = "Editor",
                       !.mode = "Normal",
                       !.status = "Normal"]

\* Recording an opened document without history.truncate(history_index + 1).
PushHistoryNoTruncate(s, path, file_id) ==
    [s EXCEPT !.history = Append(s.history, <<path, file_id>>),
              !.history_index = s.history_index + 1]

\* Recording an opened document only when it is not the current one.
PushHistoryUnlessCurrent(s, path, file_id) ==
    IF s.history[s.history_index + 1] = <<path, file_id>> THEN s
    ELSE [s EXCEPT !.history = Append(SubSeq(s.history, 1, s.history_index + 1),
                                      <<path, file_id>>),
                   !.history_index = s.history_index + 1]

\* The three lines that record an opened document in the history
\* (open_wikilink_file, select_tag_file, select_search_result).
PushHistory(s, path, file_id) ==
    [s EXCEPT !.history = Append(SubSeq(s.history, 1, s.history_index + 1),
                                 <<path, file_id>>),
              !.history_index = s.history_index + 1]

\* App::open_wikilink_file of the document named name: looked up in the files
\* table, created and indexed when it is not there.
open_wikilink_file(s, name, io) ==
    IF io.fail \in {"lookup", "create", "scanner", "new_id"} THEN Err(s)
    ELSE open_file(PushHistory(s, PathOf(FileIdOf(name)), FileIdOf(name)),
                   PathOf(FileIdOf(name)), FileIdOf(name), io)

\* navigate_back going round to the last entry from the first.
navigate_back_wraps(s, io) ==
    LET s1 == [s EXCEPT !.history_index = IF s.history_index > 0
                                          THEN s.history_index - 1
                                          ELSE Len(s.history) - 1]
    IN open_file(s1, s1.history[s1.history_index + 1][1],
                 s1.history[s1.history_index + 1][2], io)

\* App::navigate_back
navigate_back(s, io) ==
    IF s.history_index > 0
    THEN LET s1 == [s EXCEPT !.history_index = s.history_index - 1]
         IN open_file(s1, s1.history[s1.history_index + 1][1],
                      s1.history[s1.history_index + 1][2], io)
    ELSE [s EXCEPT !.status = "No previous file in history"]

\* navigate_forward going round to the first entry from the last.
navigate_forward_wraps(s, io) ==
    LET s1 == [s EXCEPT !.history_index = IF s.history_index < Len(s.history) - 1
                                          THEN s.history_index + 1
                                          ELSE 0]
    IN open_file(s1, s1.history[s1.history_index + 1][1],
                 s1.history[s1.history_index + 1][2], io)

\* App::navigate_forward
navigate_forward(s, io) ==
    IF s.history_index < Len(s.history) - 1
    THEN LET s1 == [s EXCEPT !.history_index = s.history_index + 1]
         IN open_file(s1, s1.history[s1.history_index + 1][1],
                      s1.history[s1.history_index + 1][2], io)
    ELSE [s EXCEPT !.status = "No next file in history"]

(***************************************************************************)
(* Search, tag files, completion, file tree.                               *)
(***************************************************************************)
\* What the index can answer a search with; a query returns the first
\* io.rows of them.
SearchCandidates(search_type, file_id) ==
    CASE search_type = "Files" ->
           [i \in 1..Len(AllFiles) |-> <<AllFiles[i][1], Some(AllFiles[i][2])>>]
      [] search_type = "Backlinks" ->
           IF file_id = 2 THEN << <<"tomorrow", Some(4)>> >>
           ELSE << <<"today", Some(2)>> >>
      [] search_type = "Tags" -> << <<"tag", None>> >>
      [] OTHER -> <<>>

\* App::update_search_results (search_backlinks / search_tags / search_files)
update_search_results(s, io) ==
    IF s.search_state.search_type = "None"
    THEN [s EXCEPT !.search_state.selected = IF s.search_state.results # <<>>
                                             THEN Some(0) ELSE None]
    ELSE IF io.fail = "search" THEN Err(s)
    ELSE LET rows == Take(SearchCandidates(s.search_state.search_type, s.file[2]),
                          io.rows)
         IN [s EXCEPT !.search_state.results = rows,
                      !.search_state.selected = IF rows # <<>> THEN Some(0) ELSE None]

\* App::start_search
start_search(s, search_type, io) ==
    update_search_results(
        [s EXCEPT !.search_state = [active |-> TRUE, search_type |-> search_type,
                                    query |-> <<>>, results |-> <<>>,
                                    selected |-> None],
                  !.mode = "Search",
                  !.view = "Editor",
                  !.status = "Searching",
                  !.key_sequence = <<>>],
        io)

\* App::cancel_search
cancel_search(s) ==
    [s EXCEPT !.search_state = NoSearch,
              !.mode = "Normal",
              !.status = "Normal",
              !.key_sequence = <<>>]

\* App::cancel_tag_files
cancel_tag_files(s) ==
    [s EXCEPT !.tag_files = NoTagFiles,
              !.mode = "Normal",
              !.status = "Normal",
              !.key_sequence = <<>>]

\* App::load_tag_files: the files of a tag, <<file_name, id>>.
load_tag_files(s, io) ==
    IF io.fail = "tag_files" THEN Err(s)
    ELSE LET files == Take(<< <<"note", 1>>, <<"today", 2>> >>, io.rows)
         IN [s EXCEPT !.tag_files = [files |-> files,
                                     selected |-> IF files # <<>> THEN Some(0) ELSE None],
                      !.status = IF files # <<>> THEN "Select file for tag"
                                 ELSE "No files found for tag"]

\* App::select_tag_file
select_tag_file(s, io) ==
    IF IsSome(s.tag_files.selected)
       /\ Unwrap(s.tag_files.selected) < Len(s.tag_files.files)
    THEN LET file_id == s.tag_files.files[Unwrap(s.tag_files.selected) + 1][2]
         IN IF io.fail = "path" THEN Err(s)
            ELSE LET r == open_file(PushHistory(s, PathOf(file_id), file_id),
                                    PathOf(file_id), file_id, io)
                 IN IF r.result = "Err" THEN r ELSE cancel_tag_files(r)
    ELSE cancel_tag_files(s)

\* App::select_search_result
select_search_result(s, io) ==
    LET sel == s.search_state.selected
        hit == IsSome(sel) /\ Unwrap(sel) < Len(s.search_state.results)
        row == s.search_state.results[Unwrap(sel) + 1]
        s1 == IF ~IsSome(sel) THEN [s EXCEPT !.status = "No result selected"]
              ELSE IF ~hit THEN s
              ELSE IF s.search_state.search_type \in {"Backlinks", "Files"}
              THEN (IF ~IsSome(row[2]) THEN s
                    ELSE IF io.fail = "path" THEN Err(s)
                    ELSE open_file(PushHistory(s, PathOf(Unwrap(row[2])), Unwrap(row[2])),
                                   PathOf(Unwrap(row[2])), Unwrap(row[2]), io))
              ELSE IF s.search_state.search_type = "Tags"
              THEN LET t == load_tag_files(s, io)
                   IN IF t.result = "Err" THEN t
                      ELSE IF t.tag_files.files # <<>> THEN [t EXCEPT !.mode = "TagFiles"]
                      ELSE cancel_search(t)
              ELSE s
    IN IF s1.result = "Err" THEN s1
       ELSE IF s1.mode # "TagFiles" THEN cancel_search(s1)
       ELSE s1

\* s.rfind(pat): the byte offset of the last occurrence of pat in s.
RFind(line, pat) ==
    LET hits == {k \in 0..(Len(line) - Len(pat)) :
                    SubSeq(line, k + 1, k + Len(pat)) = pat}
    IN IF hits = {} THEN None
       ELSE Some(ByteLen(Take(line, CHOOSE k \in hits : \A j \in hits : j <= k)))

\* s.contains(pat)
Contains(line, pat) == IsSome(RFind(line, pat))

\* The trigger text of a completion type.
TriggerOf(completion_type) == IF completion_type = "File" THEN <<"[", "[">> ELSE <<"#">>

\* What the index can suggest; a query returns the first io.rows of them.
SuggestionCandidates(completion_type) ==
    IF completion_type = "File" THEN << <<"n">>, <<"m">> >> ELSE << <<"t">>, <<"s">> >>

\* start_completion without the switch of mode
start_completion_keeps_mode(s, completion_type) ==
    [s EXCEPT !.completion_state =
                  [active |-> TRUE, completion_type |-> completion_type,
                   query |-> <<>>, suggestions |-> <<>>, selected |-> None,
                   trigger_start |-> s.textarea.cursor],
              !.status = IF completion_type = "File" THEN "Completing File"
                         ELSE "Completing Tag"]

\* App::start_completion
start_completion(s, completion_type) ==
    [s EXCEPT !.completion_state =
                  [active |-> TRUE, completion_type |-> completion_type,
                   query |-> <<>>, suggestions |-> <<>>, selected |-> None,
                   trigger_start |-> s.textarea.cursor],
              !.mode = "Complete",
              !.status = IF completion_type = "File" THEN "Completing File"
                         ELSE "Completing Tag"]

\* App::update_completion
update_completion(s, io) ==
    LET row == s.textarea.cursor[1]
        col == s.textarea.cursor[2]
        line == Line(s.textarea, row)
        col_bytes == ByteOfColOrLen(line, col)
        before == ByteSlice(line, 0, col_bytes)
        trig == TriggerOf(s.completion_state.completion_type)
        start == RFind(before, trig)
        query == IF IsSome(start)
                 THEN ByteSlice(line, Unwrap(start) + Len(trig), col_bytes)
                 ELSE <<>>
        s1 == [s EXCEPT !.completion_state.query = query]
    IN IF ByteLen(query) >= 2
       THEN (IF s.completion_state.completion_type = "None" THEN s1
             ELSE IF io.fail = "suggest" THEN Err(s1)
             ELSE LET sug == Take(SuggestionCandidates(s.completion_state.completion_type),
                                  io.rows)
                  IN [s1 EXCEPT !.completion_state.suggestions = sug,
                                !.completion_state.selected =
                                    IF sug # <<>> THEN Some(0) ELSE None])
       ELSE [s1 EXCEPT !.completion_state.suggestions = <<>>,
                       !.completion_state.selected = None]

\* App::cancel_completion
\* A cancel_completion that returns to Insert mode without resetting the
\* completion state.
cancel_completion_keeps_state(s) ==
    [s EXCEPT !.mode = "Insert", !.status = "Insert"]

cancel_completion(s) ==
    [s EXCEPT !.completion_state =
                  [NoCompletion EXCEPT !.trigger_start = s.completion_state.trigger_start],
              !.mode = "Insert",
              !.status = "Insert"]

\* delete_char called n times.
RECURSIVE DeleteChars(_, _)
DeleteChars(ta, n) == IF n = 0 THEN ta ELSE DeleteChars(DeleteChar(ta), n - 1)

\* format!("[[{}]]", suggestion) / format!("#{}", suggestion)
CompletionText(completion_type, suggestion) ==
    IF completion_type = "File" THEN <<"[", "[">> \o suggestion \o <<"]", "]">>
    ELSE IF completion_type = "Tag" THEN <<"#">> \o suggestion
    ELSE <<>>

\* App::select_completion
select_completion(s) ==
    LET cs == s.completion_state
        row == s.textarea.cursor[1]
        col == s.textarea.cursor[2]
        line == Line(s.textarea, row)
        col_bytes == ByteOfColOrLen(line, col)
        trigger_pos == RFind(ByteSlice(line, 0, col_bytes), TriggerOf(cs.completion_type))
        text == CompletionText(cs.completion_type, cs.suggestions[Unwrap(cs.selected) + 1])
        new_line == ByteSlice(line, 0, Unwrap(trigger_pos))
                    \o ByteSlice(line, col_bytes, ByteLen(line))
        replaced == MoveCursorJump(
                        TextAreaNew([s.textarea.lines EXCEPT ![row + 1] = new_line]),
                        row, Len(ByteSlice(line, 0, Unwrap(trigger_pos))))
        delete_len == ByteLen(cs.query) + (IF cs.completion_type = "File" THEN 2 ELSE 1)
        new_col == Max(col - delete_len, 0)
        deleted == DeleteChars(MoveCursorJump(s.textarea, row, new_col), delete_len)
    IN IF IsSome(cs.selected) /\ Unwrap(cs.selected) < Len(cs.suggestions)
       THEN cancel_completion(
                [s EXCEPT !.textarea = InsertStr(IF IsSome(trigger_pos) THEN replaced
                                                 ELSE deleted, <<text>>)])
       ELSE cancel_completion(s)

\* The entries of the base directory as App::build_root lists them (files
\* only), in the order sort_entries gives them.
RootNames == <<"note", "today">>
Reverse(q) == [i \in 1..Len(q) |-> q[Len(q) + 1 - i]]
VisibleItems(sort_asc) ==
    LET names == IF sort_asc THEN RootNames ELSE Reverse(RootNames)
    IN [i \in 1..Len(names) |-> [path |-> names[i], is_dir |-> FALSE, depth |-> 0]]

(***************************************************************************)
(* Key events (main.rs passes on Char, Enter, Backspace, Esc and the four  *)
(* arrows, with their modifiers) and the frame of one handle_input call.   *)
(***************************************************************************)
Key(code, ch, mods) == [code |-> code, ch |-> ch, mods |-> mods]
Char(c) == Key("Char", c, "NONE")
Ctrl(c) == Key("Char", c, "CONTROL")
NoKey == Key("None", "", "NONE")
NoIo == [fail |-> "none", rows |-> 0]

\* What is kept of the session as it was when the key event was delivered.
Snapshot(arm) ==
    [arm |-> arm, mode |-> mode, key_sequence |-> key_sequence, status |-> status,
     lines |-> textarea.lines, cursor |-> textarea.cursor,
     selection_start |-> textarea.selection_start,
     yanked |-> yanked, visual_anchor |-> visual_anchor,
     block_insert_col |-> block_insert_col,
     history |-> history, history_index |-> history_index, file |-> file,
     command |-> command, prev_mode |-> prev_mode,
     completion_state |-> completion_state,
     tags |-> tags, backlinks |-> backlinks,
     search_state |-> search_state, tag_files |-> tag_files,
     tree |-> tree, view |-> view]

\* The observer of an insert/undo round trip: base holds the lines before the
\* first of n character insertions typed in Insert mode, k counts the undos
\* made after them in Normal mode; any other edit or document switch ends the
\* observation ("idle").  "off": nothing is observed.  Of a block insert the
\* observer keeps the lines (base) and the first and last row (n, k) of the
\* block as 'I' or 'A' found them ("block"), up to the first character typed
\* ("blocktyped") and a Backspace right after it ("blockerased").
ProbeIdle == [phase |-> "idle", base |-> <<>>, n |-> 0, k |-> 0, col |-> 0]
ProbeOff == [phase |-> "off", base |-> <<>>, n |-> 0, k |-> 0, col |-> 0]
ProbePhase(arm, s) ==
    IF s.result = "Err" THEN ProbeIdle
    ELSE IF arm = "InsertKeyChar"
    THEN (IF probe.phase = "inserting" THEN [probe EXCEPT !.n = @ + 1]
          ELSE [phase |-> "inserting", base |-> textarea.lines, n |-> 1, k |-> 0,
                col |-> 0])
    ELSE IF arm \in {"InsertEsc", "CompleteEsc"}
    THEN probe
    ELSE IF arm = "NormalUndo" /\ probe.phase \in {"inserting", "undoing"}
            /\ probe.k < probe.n
    THEN [probe EXCEPT !.phase = "undoing", !.k = @ + 1]
    ELSE IF arm = "VisualBlockInsert" /\ IsSome(visual_anchor)
    THEN [phase |-> "block", base |-> textarea.lines,
          n |-> Min(Unwrap(visual_anchor)[1], textarea.cursor[1]),
          k |-> Max(Unwrap(visual_anchor)[1], textarea.cursor[1]),
          col |-> 0]
    ELSE IF arm = "BlockInsertChar" /\ probe.phase = "block"
    THEN [probe EXCEPT !.phase = "blocktyped"]
    ELSE IF arm = "BlockInsertBackspace" /\ probe.phase = "blocktyped"
    THEN [probe EXCEPT !.phase = "blockerased"]
    ELSE ProbeIdle

\* col: the tracked column as 'I' or 'A' set it, kept while the mode is
\* BlockInsert.
ProbeNext(arm, s) ==
    IF probe.phase = "off" THEN probe
    ELSE [ProbePhase(arm, s) EXCEPT
            !.col = IF arm = "VisualBlockInsert" THEN s.block_insert_col
                    ELSE IF s.mode = "BlockInsert" THEN probe.col
                    ELSE 0]

\* One call app.handle_input(ev)? of the event loop (main.rs): the loop runs
\* while the last call returned Ok and should_quit is not set; s is the session
\* the handler arm leaves.
Deliver(arm, ev, s) ==
    /\ result = "Ok"
    /\ ~should_quit
    /\ Fits(s.textarea)
    /\ Len(s.history) <= MaxNav
    /\ Install(s)
    /\ event' = ev
    /\ pre' = Snapshot(arm)
    /\ probe' = ProbeNext(arm, s)

(***************************************************************************)
(* Mode::Normal                                                            *)
(***************************************************************************)
Backslash == "\\"
SeqGG == <<"g", "g">>
SeqYY == <<"y", "y">>
SeqDD == <<"d", "d">>
SeqOB == <<Backslash, "o", "b">>
SeqOT == <<Backslash, "o", "t">>
SeqF == <<Backslash, "f">>
SeqOOT == <<Backslash, "o", "o", "t">>
SeqOOY == <<Backslash, "o", "o", "y">>
SeqOOTomorrow == <<Backslash, "o", "o", "T">>
SeqT == <<Backslash, "t">>

\* The sequences the invalid-sequence guard tests the buffer against.
GuardedSequences == {SeqOB, SeqOT, SeqF, SeqOOT, SeqOOY, SeqOOTomorrow, SeqT}

\* The guard with starts_with the other way round, as the FileTree arm has it.
InvalidSequenceReversed(seq) == ~(\E e \in GuardedSequences : StartsWith(seq, e))

\* The guard of the arm that discards the buffer.
InvalidSequence(seq) == ~(\E e \in GuardedSequences : StartsWith(e, seq))

\* Fired without self.key_sequence.clear().
FiredKeepsBuffer(s, text) ==
    IF s.result = "Err" THEN s ELSE [s EXCEPT !.status = text]

\* A command of the table that ran: the buffer is cleared, the status set.
Fired(s, text) ==
    IF s.result = "Err" THEN s
    ELSE [s EXCEPT !.key_sequence = <<>>, !.status = text]

\* Entering the file tree ("\t").
enter_file_tree(s) ==
    LET on_disk(it) == it.path \notin s.tree.removed
        items == IF s.tree.visible_items = <<>>
                 THEN SelectSeq(VisibleItems(s.tree.sort_asc), on_disk)
                 ELSE s.tree.visible_items
    IN [s EXCEPT !.tree.visible_items = items,
                 !.tree.selected = IF items # <<>> THEN Some(0) ELSE @,
                 !.mode = "FileTree"]

\* handle_input, Mode::Normal with a key sequence under way and a Char(c) event.
normal_key_sequence(s0, c, io) ==
    LET seq == Append(s0.key_sequence, c)
        s == [s0 EXCEPT !.key_sequence = seq]
        row == s.textarea.cursor[1]
    IN CASE seq = SeqGG ->
              Fired([s EXCEPT !.textarea = MoveCursor(@, "Top")], "Moved to top")
         [] seq = SeqYY ->
              Fired([s EXCEPT !.yanked = << Line(s.textarea, row) >>],
                    "Yanked line (not undoable)")
         [] seq = SeqDD ->
              Fired([s EXCEPT !.textarea = DeleteLineByEnd(MoveCursor(@, "Head"))],
                    "Deleted line")
         [] seq = SeqOB ->
              Fired(start_search(s, "Backlinks", io), "Started backlinks search")
         [] seq = SeqOT ->
              Fired(start_search(s, "Tags", io), "Started tags search")
         [] seq = SeqF ->
              Fired(start_search(s, "Files", io), "Started files search")
         [] seq = SeqOOT ->
              Fired(open_wikilink_file(s, "today", io), "Opened today's file")
         [] seq = SeqOOY ->
              Fired(open_wikilink_file(s, "yesterday", io), "Opened yesterday's file")
         [] seq = SeqOOTomorrow ->
              Fired(open_wikilink_file(s, "tomorrow", io), "Opened tomorrow's file")
         [] seq = SeqT ->
              Fired(enter_file_tree(s), "Entered File Tree mode")
         [] OTHER ->
              IF InvalidSequence(seq)
              THEN [s EXCEPT !.key_sequence = <<>>, !.status = "Invalid sequence 1"]
              ELSE s

\* The Char events the single-key match of Normal mode binds to a command;
\* every other Char event starts a key sequence.
NormalBound(ev) ==
    ev.code = "Char"
    /\ ev.ch \in {"o", "i", "r", "u", "a", "v", "x", "p", ":", "j", "k", "h", "l", "G"}
    /\ (ev.ch = "r" => ev.mods = "CONTROL")

\* The first test matching unmodified characters only.
SequenceUnderWayPlain(ev) ==
    key_sequence # <<>> /\ ev.code = "Char" /\ ev.mods = "NONE"

\* The first test of the Normal arm: a key sequence is under way and the
\* event is a Char; the single-key match is reached only when it fails.
SequenceUnderWay(ev) == key_sequence # <<>> /\ ev.code = "Char"
NormalSingle(ev) == mode = "Normal" /\ ~SequenceUnderWay(ev)

NormalKeySequence(ev, io) ==
    /\ mode = "Normal"
    /\ SequenceUnderWay(ev)
    /\ Deliver("NormalKeySequence", ev, normal_key_sequence(Cur, ev.ch, io))

NormalBack(ev, io) ==
    /\ NormalSingle(ev)
    /\ ev = Ctrl("o")
    /\ Deliver("NormalBack", ev, navigate_back(Cur, io))

NormalForward(ev, io) ==
    /\ NormalSingle(ev)
    /\ ev = Ctrl("i")
    /\ Deliver("NormalForward", ev, navigate_forward(Cur, io))

NormalRedo(ev) ==
    /\ NormalSingle(ev)
    /\ ev = Ctrl("r")
    /\ Deliver("NormalRedo", ev,
               [Cur EXCEPT !.textarea = Redo(@),
                           !.status = IF CanRedo(textarea) THEN "Redone"
                                      ELSE "Nothing to redo"])

NormalUndo(ev) ==
    /\ NormalSingle(ev)
    /\ ev.code = "Char" /\ ev.ch = "u"
    /\ Deliver("NormalUndo", ev,
               [Cur EXCEPT !.textarea = Undo(@),
                           !.status = IF CanUndo(textarea) THEN "Undone"
                                      ELSE "Nothing to undo"])

NormalInsert(ev) ==
    /\ NormalSingle(ev)
    /\ ev.code = "Char" /\ ev.ch = "i" /\ ev.mods # "CONTROL"
    /\ Deliver("NormalInsert", ev, [Cur EXCEPT !.mode = "Insert", !.status = "Insert"])

NormalAppend(ev) ==
    /\ NormalSingle(ev)
    /\ ev.code = "Char" /\ ev.ch = "a"
    /\ Deliver("NormalAppend", ev,
               [Cur EXCEPT !.textarea = MoveCursor(@, "Forward"),
                           !.mode = "Insert", !.status = "Insert"])

NormalOpenLine(ev) ==
    /\ NormalSingle(ev)
    /\ ev.code = "Char" /\ ev.ch = "o" /\ ev.mods # "CONTROL"
    /\ Deliver("NormalOpenLine", ev,
               [Cur EXCEPT !.textarea = InsertNewline(MoveCursor(@, "End")),
                           !.mode = "Insert", !.status = "Insert"])

NormalVisualBlock(ev) ==
    /\ NormalSingle(ev)
    /\ ev = Ctrl("v")
    /\ Deliver("NormalVisualBlock", ev,
               [Cur EXCEPT !.visual_anchor = Some(textarea.cursor),
                           !.mode = "VisualBlock", !.status = "Visual Block"])

NormalVisual(ev) ==
    /\ NormalSingle(ev)
    /\ ev.code = "Char" /\ ev.ch = "v" /\ ev.mods # "CONTROL"
    /\ Deliver("NormalVisual", ev,
               [Cur EXCEPT !.visual_anchor = Some(textarea.cursor),
                           !.mode = "Visual", !.status = "Visual"])

NormalDeleteChar(ev) ==
    /\ NormalSingle(ev)
    /\ ev.code = "Char" /\ ev.ch = "x"
    /\ Deliver("NormalDeleteChar", ev, [Cur EXCEPT !.textarea = DeleteNextChar(@)])

\* yanked.join("\n") as the lines insert_str splits it into.
JoinedLines(y) == IF y = <<>> THEN << <<>> >> ELSE y

NormalPaste(ev) ==
    /\ NormalSingle(ev)
    /\ ev.code = "Char" /\ ev.ch = "p"
    /\ Deliver("NormalPaste", ev,
               [Cur EXCEPT !.textarea =
                   InsertStr(InsertChar(MoveCursor(@, "End"), "\n"), JoinedLines(yanked))])

NormalCommand(ev) ==
    /\ NormalSingle(ev)
    /\ ev.code = "Char" /\ ev.ch = ":"
    /\ Deliver("NormalCommand", ev,
               [Cur EXCEPT !.prev_mode = Some("Normal"), !.mode = "Command",
                           !.command = <<>>, !.status = "Command"])

\* j, k, h, l, G and the arrows without Control.
NormalMoveOf(ev) ==
    CASE ev.code = "Char" /\ ev.ch = "j" -> "Down"
      [] ev.code = "Char" /\ ev.ch = "k" -> "Up"
      [] ev.code = "Char" /\ ev.ch = "h" -> "Back"
      [] ev.code = "Char" /\ ev.ch = "l" -> "Forward"
      [] ev.code = "Char" /\ ev.ch = "G" -> "Bottom"
      [] ev.code = "Up" -> "Up"
      [] ev.code = "Down" -> "Down"
      [] ev.code = "Left" /\ ev.mods # "CONTROL" -> "Back"
      [] ev.code = "Right" /\ ev.mods # "CONTROL" -> "Forward"
      [] OTHER -> "None"

NormalMove(ev) ==
    /\ NormalSingle(ev)
    /\ NormalMoveOf(ev) # "None"
    /\ Deliver("NormalMove", ev, [Cur EXCEPT !.textarea = MoveCursor(@, NormalMoveOf(ev))])

NormalStartSequence(ev) ==
    /\ NormalSingle(ev)
    /\ ev.code = "Char"
    /\ ~NormalBound(ev)
    /\ Deliver("NormalStartSequence", ev,
               [Cur EXCEPT !.key_sequence = Append(@, ev.ch)])

NormalUnsupported(ev) ==
    /\ NormalSingle(ev)
    /\ ev.code \in {"Esc", "Backspace"}
    /\ Deliver("NormalUnsupported", ev, [Cur EXCEPT !.status = "Unsupported key"])

\* The characters of a tag of the index.
TagText(tag) == <<"t">>

\* The note a link text names (open_wikilink_file creates the ones missing).
FileOfLink(text) == IF text = <<"b">> THEN "today" ELSE "yesterday"

\* s.find(pat): the character offset of the first occurrence of pat in s.
Find(line, pat) ==
    LET hits == {k \in 0..(Len(line) - Len(pat)) :
                    SubSeq(line, k + 1, k + Len(pat)) = pat}
    IN IF hits = {} THEN None
       ELSE Some(CHOOSE k \in hits : \A j \in hits : k <= j)

\* App::extract_wikilink
extract_wikilink(line) ==
    LET start == Find(line, <<"[", "[">>)
    IN IF ~IsSome(start) THEN None
       ELSE LET rest == Drop(line, Unwrap(start))
                close == Find(rest, <<"]", "]">>)
            IN IF ~IsSome(close) THEN None
               ELSE Some(SubSeq(rest, 3, Unwrap(close)))

\* App::show_tag_files
show_tag_files(s, tag, io) ==
    IF io.fail = "tag_query" THEN Err(s)
    ELSE [s EXCEPT !.status = "Files with tag", !.view = "Info"]

\* App::follow_backlink; index is 0 for "no backlink" (usize::MAX).
follow_backlink(s, index, io) ==
    LET row == s.textarea.cursor[1]
        line == s.textarea.lines[row + 1]
        link == IF index = 0 THEN extract_wikilink(line)
                ELSE Some(s.backlinks[index][1])
        cleaned == [s EXCEPT !.textarea =
                       MoveCursorJump(
                           TextAreaNew([s.textarea.lines EXCEPT ![row + 1] =
                               ByteSlice(line, 0,
                                         IF IsSome(RFind(line, <<"[", "[">>))
                                         THEN Unwrap(RFind(line, <<"[", "[">>))
                                         ELSE ByteLen(line))]),
                           row, 0)]
        s1 == IF Contains(line, <<"[", "[">>) /\ ~Contains(line, <<"]", "]">>)
              THEN cleaned ELSE s
    IN IF ~IsSome(link) THEN Err(s)
       ELSE open_wikilink_file(s1, FileOfLink(Unwrap(link)), io)

\* The Enter arm of Normal mode.
normal_enter(s, io) ==
    LET line == s.textarea.lines[s.textarea.cursor[1] + 1]
        linked == {i \in 1..Len(s.backlinks) : Contains(line, s.backlinks[i][1])}
        tagged == {i \in 1..Len(s.tags) : Contains(line, TagText(s.tags[i]))}
    IN IF s.view # "Editor"
       THEN [s EXCEPT !.view = "Editor", !.status = "Normal"]
       ELSE IF linked # {}
       THEN follow_backlink(s, CHOOSE i \in linked : \A j \in linked : i <= j, io)
       ELSE IF IsSome(extract_wikilink(line))
       THEN follow_backlink(s, 0, io)
       ELSE IF tagged # {}
       THEN show_tag_files(s, s.tags[CHOOSE i \in tagged : \A j \in tagged : i <= j], io)
       ELSE s

NormalEnter(ev, io) ==
    /\ NormalSingle(ev)
    /\ ev.code = "Enter"
    /\ Deliver("NormalEnter", ev, normal_enter(Cur, io))

(***************************************************************************)
(* Mode::Insert                                                            *)
(***************************************************************************)
\* The text before the cursor, sliced at the byte offset of the cursor column.
BeforeCursor(ta) ==
    LET line == Line(ta, ta.cursor[1])
    IN ByteSlice(line, 0, ByteOfColOrLen(line, ta.cursor[2]))

\* Insert mode, Char: TextArea::input inserts the character; "[[" or "#"
\* before the cursor starts a completion.
insert_char(s, c, io) ==
    LET s1 == [s EXCEPT !.textarea = InsertChar(@, c)]
        before == BeforeCursor(s1.textarea)
    IN IF EndsWith(before, <<"[", "[">>)
       THEN update_completion(start_completion(s1, "File"), io)
       ELSE IF EndsWith(before, <<"#">>)
       THEN update_completion(start_completion(s1, "Tag"), io)
       ELSE IF s1.completion_state.active THEN update_completion(s1, io)
       ELSE s1

\* Backspace in Insert and Complete mode after TextArea::input deleted: the
\* completion is cancelled when its trigger is no longer before the cursor.
after_backspace(s, io) ==
    IF ~Contains(BeforeCursor(s.textarea), TriggerOf(s.completion_state.completion_type))
    THEN cancel_completion(s)
    ELSE update_completion(s, io)

InsertEsc(ev) ==
    /\ mode = "Insert"
    /\ ev.code = "Esc"
    /\ Deliver("InsertEsc", ev, [Cur EXCEPT !.mode = "Normal", !.status = "Normal"])

InsertKeyChar(ev, io) ==
    /\ mode = "Insert"
    /\ ev.code = "Char" /\ ev.mods # "CONTROL"
    /\ Deliver("InsertKeyChar", ev, insert_char(Cur, ev.ch, io))

InsertBackspace(ev, io) ==
    /\ mode = "Insert"
    /\ ev.code = "Backspace" /\ ev.mods # "CONTROL"
    /\ Deliver("InsertBackspace", ev,
               LET s1 == [Cur EXCEPT !.textarea = DeleteChar(@)]
               IN IF s1.completion_state.active THEN after_backspace(s1, io) ELSE s1)

\* The arrows TextArea::input moves the cursor by (Shift selects).
ArrowMoveOf(ev) ==
    CASE ev.code = "Up" -> "Up"
      [] ev.code = "Down" -> "Down"
      [] ev.code = "Left" -> "Back"
      [] ev.code = "Right" -> "Forward"
      [] OTHER -> "None"

\* Insert mode, any other key: TextArea::input (here: the arrows, Enter).
InsertArrow(ev, io) ==
    /\ mode = "Insert"
    /\ ArrowMoveOf(ev) # "None" /\ ev.mods # "CONTROL"
    /\ Deliver("InsertArrow", ev,
               LET s1 == [Cur EXCEPT !.textarea =
                             MoveWithShift(@, NextCursor(@, ArrowMoveOf(ev)),
                                           ev.mods = "SHIFT")]
               IN IF s1.completion_state.active THEN update_completion(s1, io) ELSE s1)

InsertEnter(ev, io) ==
    /\ mode = "Insert"
    /\ ev.code = "Enter"
    /\ Deliver("InsertEnter", ev,
               LET s1 == [Cur EXCEPT !.textarea = InsertNewline(@)]
               IN IF s1.completion_state.active THEN update_completion(s1, io) ELSE s1)

(***************************************************************************)
(* Mode::Command, Mode::Complete, Mode::Search, Mode::TagFiles             *)
(***************************************************************************)
CommandEsc(ev) ==
    /\ mode = "Command"
    /\ ev.code = "Esc"
    /\ Deliver("CommandEsc", ev,
               [Cur EXCEPT !.mode = IF IsSome(prev_mode) THEN Unwrap(prev_mode)
                                    ELSE "Normal",
                           !.status = "Normal",
                           !.command = <<>>,
                           !.prev_mode = None])

\* The characters of a text as one string.
RECURSIVE JoinChars(_)
JoinChars(q) == IF q = <<>> THEN "" ELSE q[1] \o JoinChars(Tail(q))

\* str::trim_start_matches(p): the text without its leading repetitions of p.
RECURSIVE TrimStartMatches(_, _)
TrimStartMatches(q, p) ==
    IF StartsWith(q, p) /\ p # <<>> THEN TrimStartMatches(Drop(q, Len(p)), p) ELSE q

CmdRename == <<"r", "e", "n", "a", "m", "e", " ">>
CmdNew == <<"n", "e", "w", " ">>

\* What content.lines() reads back from lines.join("\n"): a last empty line
\* is not read back.
SavedLines(ls) == IF ls[Len(ls)] = <<>> THEN SubSeq(ls, 1, Len(ls) - 1) ELSE ls

\* App::save_file: fs::write, then the indexer (markdown-scanner) on the file.
save_file(s, io) ==
    LET written == [s EXCEPT !.disk[s.file[2]] = SavedLines(s.textarea.lines)]
    IN IF io.fail = "write" THEN Err(s)
       ELSE IF io.fail \in {"spawn", "scanner"} THEN Err(written)
       ELSE [written EXCEPT !.status = "Saved"]

\* App::rename_selected: the selected file of the tree gets the new name.
rename_selected(s, new_name, io) ==
    IF ~IsSome(s.tree.selected) THEN s
    ELSE LET i == Unwrap(s.tree.selected) + 1
         IN IF i > Len(s.tree.visible_items) THEN Panic(s)
            ELSE IF s.tree.visible_items[i].is_dir
            THEN [s EXCEPT !.status = "Cannot rename directories"]
            ELSE IF io.fail \in {"rename", "spawn", "scanner"} THEN Err(s)
            ELSE [s EXCEPT !.tree.visible_items[i].path = JoinChars(new_name)]

\* App::create_new_file: an empty file name.md next to the selected one.
create_new_file(s, name, io) ==
    IF ~IsSome(s.tree.selected) THEN s
    ELSE IF Unwrap(s.tree.selected) + 1 > Len(s.tree.visible_items) THEN Panic(s)
    ELSE IF io.fail \in {"write", "spawn", "scanner"} THEN Err(s)
    ELSE [s EXCEPT !.tree.visible_items =
                       Append(@, [path |-> JoinChars(name) \o ".md",
                                  is_dir |-> FALSE, depth |-> 0]),
                   !.status = "Created new file"]

\* Enter in Command mode going to Normal mode whatever mode came before.
command_enter_to_normal(s, io) ==
    LET ran == IF s.command \in {<<"w">>, <<"w", "q">>} THEN save_file(s, io) ELSE s
    IN IF ran.result # "Ok" THEN ran
       ELSE [ran EXCEPT !.mode = "Normal", !.command = <<>>, !.prev_mode = None,
                        !.should_quit = s.command \in {<<"q">>, <<"w", "q">>}]

\* Command mode, Enter: the command runs; a failing command returns through
\* `?` before the mode is restored.
command_enter(s, io) ==
    LET saved == save_file(s, io)
        ran == IF s.command = <<"w">> THEN saved
               ELSE IF s.command = <<"q">> THEN [s EXCEPT !.should_quit = TRUE]
               ELSE IF s.command = <<"w", "q">>
               THEN (IF saved.result = "Ok" THEN [saved EXCEPT !.should_quit = TRUE]
                     ELSE saved)
               ELSE IF StartsWith(s.command, CmdRename)
               THEN rename_selected(s, TrimStartMatches(s.command, CmdRename), io)
               ELSE IF StartsWith(s.command, CmdNew)
               THEN create_new_file(s, TrimStartMatches(s.command, CmdNew), io)
               ELSE [s EXCEPT !.status = "Unknown command: " \o JoinChars(s.command)]
    IN IF ran.result # "Ok" THEN ran
       ELSE [ran EXCEPT !.mode = IF IsSome(s.prev_mode) THEN Unwrap(s.prev_mode)
                                 ELSE "Normal",
                        !.command = <<>>,
                        !.prev_mode = None]

CommandEnter(ev, io) ==
    /\ mode = "Command"
    /\ ev.code = "Enter"
    /\ Deliver("CommandEnter", ev, command_enter(Cur, io))

CommandKeyChar(ev) ==
    /\ mode = "Command"
    /\ ev.code = "Char"
    /\ Deliver("CommandKeyChar", ev, [Cur EXCEPT !.command = Append(@, ev.ch)])

CommandBackspace(ev) ==
    /\ mode = "Command"
    /\ ev.code = "Backspace"
    /\ Deliver("CommandBackspace", ev,
               [Cur EXCEPT !.command = IF @ = <<>> THEN @ ELSE SubSeq(@, 1, Len(@) - 1)])

CompleteEsc(ev) ==
    /\ mode = "Complete"
    /\ ev.code = "Esc"
    /\ Deliver("CompleteEsc", ev, cancel_completion(Cur))

\* Complete mode, Char: TextArea::input, then update_completion.
CompleteEnter(ev) ==
    /\ mode = "Complete"
    /\ ev.code = "Enter"
    /\ Deliver("CompleteEnter", ev, select_completion(Cur))

CompleteKeyChar(ev, io) ==
    /\ mode = "Complete"
    /\ ev.code = "Char" /\ ev.mods # "CONTROL"
    /\ Deliver("CompleteKeyChar", ev,
               update_completion([Cur EXCEPT !.textarea = InsertChar(@, ev.ch)], io))

\* Complete mode, Backspace: TextArea::input, then the completion is cancelled
\* when its trigger is nowhere before the cursor, and updated otherwise.
CompleteBackspace(ev, io) ==
    /\ mode = "Complete"
    /\ ev.code = "Backspace" /\ ev.mods # "CONTROL"
    /\ Deliver("CompleteBackspace", ev,
               after_backspace([Cur EXCEPT !.textarea = DeleteChar(@)], io))

SearchEsc(ev) ==
    /\ mode = "Search"
    /\ ev.code = "Esc"
    /\ Deliver("SearchEsc", ev, cancel_search(Cur))

SearchEnter(ev, io) ==
    /\ mode = "Search"
    /\ ev.code = "Enter"
    /\ Deliver("SearchEnter", ev, select_search_result(Cur, io))

TagFilesEsc(ev) ==
    /\ mode = "TagFiles"
    /\ ev.code = "Esc"
    /\ Deliver("TagFilesEsc", ev, cancel_tag_files(Cur))

TagFilesEnter(ev, io) ==
    /\ mode = "TagFiles"
    /\ ev.code = "Enter"
    /\ Deliver("TagFilesEnter", ev, select_tag_file(Cur, io))

(***************************************************************************)
(* Up and Down in the lists of Complete, Search and TagFiles.              *)
(***************************************************************************)
\* How the program was built: with overflow checks ("debug": an overflowing
\* subtraction panics) or without ("release": it wraps).
Builds == {"debug", "release"}

\* `0 - 1` in usize under a build with overflow checks.
Overflows(len, build) == len = 0 /\ build = "debug"

\* `selected < len - 1` in usize: with len = 0 and no overflow checks the
\* right-hand side is usize::MAX, above every index a session holds.
BelowLast(selected, len) == IF len = 0 THEN TRUE ELSE selected < len - 1

\* The Up arm of a list: selected().unwrap_or(0), one less when above 0.
list_up(selected) ==
    LET sel == IF IsSome(selected) THEN Unwrap(selected) ELSE 0
    IN IF sel > 0 THEN Some(sel - 1) ELSE selected

\* The Down arm of a list of len entries: one more when below len - 1.
list_down(selected, len) ==
    LET sel == IF IsSome(selected) THEN Unwrap(selected) ELSE 0
    IN IF BelowLast(sel, len) THEN Some(sel + 1) ELSE selected

CompleteUp(ev) ==
    /\ mode = "Complete"
    /\ ev.code = "Up"
    /\ Deliver("CompleteUp", ev,
               [Cur EXCEPT !.completion_state.selected = list_up(@)])

CompleteDown(ev, build) ==
    /\ mode = "Complete"
    /\ ev.code = "Down"
    /\ Deliver("CompleteDown", ev,
               IF Overflows(Len(completion_state.suggestions), build) THEN Panic(Cur)
               ELSE [Cur EXCEPT !.completion_state.selected =
                                    list_down(@, Len(completion_state.suggestions))])

SearchUp(ev) ==
    /\ mode = "Search"
    /\ ev.code = "Up"
    /\ Deliver("SearchUp", ev, [Cur EXCEPT !.search_state.selected = list_up(@)])

SearchDown(ev, build) ==
    /\ mode = "Search"
    /\ ev.code = "Down"
    /\ Deliver("SearchDown", ev,
               IF Overflows(Len(search_state.results), build) THEN Panic(Cur)
               ELSE [Cur EXCEPT !.search_state.selected =
                                    list_down(@, Len(search_state.results))])

\* Search mode, Char(c): query.push(c), update_search_results.
SearchKeyChar(ev, io) ==
    /\ mode = "Search"
    /\ ev.code = "Char"
    /\ Deliver("SearchKeyChar", ev,
               update_search_results(
                   [Cur EXCEPT !.search_state.query = Append(@, ev.ch)], io))

\* Search mode, Backspace: query.pop(), update_search_results.
SearchBackspace(ev, io) ==
    /\ mode = "Search"
    /\ ev.code = "Backspace"
    /\ Deliver("SearchBackspace", ev,
               update_search_results(
                   [Cur EXCEPT !.search_state.query =
                                   IF @ = <<>> THEN @ ELSE SubSeq(@, 1, Len(@) - 1)], io))

TagFilesUp(ev) ==
    /\ mode = "TagFiles"
    /\ ev.code = "Up"
    /\ Deliver("TagFilesUp", ev, [Cur EXCEPT !.tag_files.selected = list_up(@)])

TagFilesDown(ev, build) ==
    /\ mode = "TagFiles"
    /\ ev.code = "Down"
    /\ Deliver("TagFilesDown", ev,
               IF Overflows(Len(tag_files.files), build) THEN Panic(Cur)
               ELSE [Cur EXCEPT !.tag_files.selected =
                                    list_down(@, Len(tag_files.files))])

(***************************************************************************)
(* Mode::FileTree                                                          *)
(***************************************************************************)
\* FileTree with a key sequence under way and a Char(c) event: "oc" and "on"
\* sort the tree, anything else discards the buffer.
file_tree_key_sequence(s, c) ==
    LET seq == Append(s.key_sequence, c)
        by == IF seq = <<"o", "c">> THEN "Modified" ELSE "Name"
        asc == IF s.tree.sort_by = by THEN ~s.tree.sort_asc ELSE TRUE
    IN IF seq \in {<<"o", "c">>, <<"o", "n">>}
       THEN [s EXCEPT !.tree.sort_by = by,
                      !.tree.sort_asc = asc,
                      !.tree.visible_items =
                          IF @ = <<>> THEN @ ELSE VisibleItems(asc),
                      !.key_sequence = <<>>,
                      !.status = IF by = "Modified" THEN "Sorted by creation time"
                                 ELSE "Sorted by name"]
       ELSE IF ~StartsWith(seq, <<"o", "c">>) /\ ~StartsWith(seq, <<"o", "n">>)
       THEN [s EXCEPT !.key_sequence = <<>>, !.status = "Invalid sequence"]
       ELSE [s EXCEPT !.key_sequence = seq]

\* The Char events the single-key match of FileTree mode binds to a command.
FileTreeBound(ev) ==
    ev.code = "Char" /\ ev.ch \in {"v", "d", "r", "n", "y", "x", "p", "<", ">", "f"}

FileTreeKeySequence(ev) ==
    /\ mode = "FileTree"
    /\ SequenceUnderWay(ev)
    /\ Deliver("FileTreeKeySequence", ev, file_tree_key_sequence(Cur, ev.ch))

FileTreeEsc(ev) ==
    /\ mode = "FileTree"
    /\ ~SequenceUnderWay(ev)
    /\ ev.code = "Esc"
    /\ Deliver("FileTreeEsc", ev, [Cur EXCEPT !.mode = "Normal", !.status = "Normal"])

\* FileTree Enter on a file: the file is opened.
FileTreeEnter(ev, io) ==
    /\ mode = "FileTree"
    /\ ev.code = "Enter"
    /\ Deliver("FileTreeEnter", ev,
               IF IsSome(tree.selected)
               THEN open_wikilink_file(Cur, tree.visible_items[Unwrap(tree.selected) + 1].path, io)
               ELSE Cur)

\* FileTree 'r' / 'n': Command mode with the command text begun.
FileTreeCommand(ev) ==
    /\ mode = "FileTree"
    /\ ~SequenceUnderWay(ev)
    /\ ev.code = "Char" /\ ev.ch \in {"r", "n"}
    /\ Deliver("FileTreeCommand", ev,
               [Cur EXCEPT !.prev_mode = Some("FileTree"),
                           !.mode = "Command",
                           !.command = IF ev.ch = "r" THEN CmdRename ELSE CmdNew,
                           !.status = IF ev.ch = "r" THEN "Rename to:"
                                      ELSE "New file name:"])

FileTreeStartSequence(ev) ==
    /\ mode = "FileTree"
    /\ ~SequenceUnderWay(ev)
    /\ ev.code = "Char"
    /\ ~FileTreeBound(ev)
    /\ Deliver("FileTreeStartSequence", ev,
               [Cur EXCEPT !.key_sequence = Append(@, ev.ch)])

\* The visible items without those whose path is in paths.
WithoutPaths(items, paths) ==
    LET kept(it) == it.path \notin paths IN SelectSeq(items, kept)

\* The rows min..=max of the tree selection: the anchor, or the selected row
\* (row 0 when there is none), and the selected row.
TreeRange(t) ==
    LET current == IF IsSome(t.selected) THEN Unwrap(t.selected) ELSE 0
        anchor == IF IsSome(t.visual_anchor) THEN Unwrap(t.visual_anchor) ELSE current
    IN <<Min(anchor, current), Max(anchor, current)>>

\* The paths of the files in the rows min..=max.
FilesInRange(t) ==
    LET in_range(i) == TreeRange(t)[1] <= i - 1 /\ i - 1 <= TreeRange(t)[2]
        rows == SelectSeq([i \in 1..Len(t.visible_items) |-> i],
                          LAMBDA i : in_range(i) /\ ~t.visible_items[i].is_dir)
    IN [k \in 1..Len(rows) |-> t.visible_items[rows[k]].path]

\* App::yank_selected, then the buffer mode of copy_selected / cut_selected;
\* visible_items[i] panics on a row that is not there.
yank_selected(s, buffer_mode) ==
    IF TreeRange(s.tree)[2] >= Len(s.tree.visible_items) THEN Panic(s)
    ELSE [s EXCEPT !.tree.yanked_paths = FilesInRange(s.tree),
                   !.tree.buffer_mode = Some(buffer_mode),
                   !.status = IF buffer_mode = "Cut" THEN "Cut paths to buffer"
                              ELSE "Copied paths to buffer"]

\* App::delete_selected_file: the selection is left as it is.
delete_selected_file(s, io) ==
    IF ~IsSome(s.tree.selected) THEN s
    ELSE LET i == Unwrap(s.tree.selected) + 1
         IN IF i > Len(s.tree.visible_items) THEN Panic(s)
            ELSE IF s.tree.visible_items[i].is_dir
            THEN [s EXCEPT !.status = "Cannot delete directories"]
            ELSE IF io.fail = "remove" THEN Err(s)
            ELSE IF io.fail \in {"spawn", "scanner"}
            THEN Err([s EXCEPT !.tree.removed = @ \cup {s.tree.visible_items[i].path}])
            ELSE [s EXCEPT !.tree.visible_items =
                               WithoutPaths(@, {s.tree.visible_items[i].path}),
                           !.tree.removed = @ \cup {s.tree.visible_items[i].path}]

\* App::delete_selected_files: the files of the rows min..=max, then
\* select(Some(min)); an error ends it at the first file.
delete_selected_files(s, io) ==
    LET paths == FilesInRange(s.tree)
        gone == {paths[k] : k \in 1..Len(paths)}
    IN IF TreeRange(s.tree)[2] >= Len(s.tree.visible_items) THEN Panic(s)
       ELSE IF paths # <<>> /\ io.fail = "remove" THEN Err(s)
       ELSE IF paths # <<>> /\ io.fail \in {"spawn", "scanner"}
       THEN Err([s EXCEPT !.tree.removed = @ \cup {paths[1]}])
       ELSE [s EXCEPT !.tree.visible_items = WithoutPaths(@, gone),
                      !.tree.removed = @ \cup gone,
                      !.tree.selected = Some(TreeRange(s.tree)[1])]

FileTreeUp(ev) ==
    /\ mode = "FileTree"
    /\ ~SequenceUnderWay(ev)
    /\ ev.code = "Up"
    /\ Deliver("FileTreeUp", ev, [Cur EXCEPT !.tree.selected = list_up(@)])

FileTreeDown(ev, build) ==
    /\ mode = "FileTree"
    /\ ~SequenceUnderWay(ev)
    /\ ev.code = "Down"
    /\ Deliver("FileTreeDown", ev,
               IF Overflows(Len(tree.visible_items), build) THEN Panic(Cur)
               ELSE [Cur EXCEPT !.tree.selected = list_down(@, Len(tree.visible_items))])

\* FileTree Left / Right on a tree of files only: the selected item is read,
\* and nothing changes.
FileTreeSide(ev) ==
    /\ mode = "FileTree"
    /\ ~SequenceUnderWay(ev)
    /\ ev.code \in {"Left", "Right"}
    /\ Deliver("FileTreeSide", ev,
               IF IsSome(tree.selected) /\ Unwrap(tree.selected) >= Len(tree.visible_items)
               THEN Panic(Cur) ELSE Cur)

FileTreeVisualStart(ev) ==
    /\ mode = "FileTree"
    /\ ~SequenceUnderWay(ev)
    /\ ev.code = "Char" /\ ev.ch = "v"
    /\ Deliver("FileTreeVisualStart", ev,
               IF IsSome(tree.selected)
               THEN [Cur EXCEPT !.tree.visual_anchor = tree.selected,
                                !.mode = "FileTreeVisual",
                                !.status = "Visual"]
               ELSE Cur)

FileTreeDelete(ev, io) ==
    /\ mode = "FileTree"
    /\ ~SequenceUnderWay(ev)
    /\ ev.code = "Char" /\ ev.ch = "d"
    /\ Deliver("FileTreeDelete", ev, delete_selected_file(Cur, io))

\* FileTree 'y' (copy_selected) and 'x' (cut_selected).
FileTreeYank(ev) ==
    /\ mode = "FileTree"
    /\ ~SequenceUnderWay(ev)
    /\ ev.code = "Char" /\ ev.ch \in {"y", "x"}
    /\ Deliver("FileTreeYank", ev,
               yank_selected(Cur, IF ev.ch = "x" THEN "Cut" ELSE "Copy"))

(***************************************************************************)
(* Mode::FileTreeVisual                                                    *)
(***************************************************************************)
FileTreeVisualEsc(ev) ==
    /\ mode = "FileTreeVisual"
    /\ ev.code = "Esc"
    /\ Deliver("FileTreeVisualEsc", ev,
               [Cur EXCEPT !.tree.visual_anchor = None,
                           !.mode = "FileTree",
                           !.status = "File Tree"])

FileTreeVisualUp(ev) ==
    /\ mode = "FileTreeVisual"
    /\ ev.code = "Up"
    /\ Deliver("FileTreeVisualUp", ev, [Cur EXCEPT !.tree.selected = list_up(@)])

FileTreeVisualDown(ev, build) ==
    /\ mode = "FileTreeVisual"
    /\ ev.code = "Down"
    /\ Deliver("FileTreeVisualDown", ev,
               IF Overflows(Len(tree.visible_items), build) THEN Panic(Cur)
               ELSE [Cur EXCEPT !.tree.selected = list_down(@, Len(tree.visible_items))])

FileTreeVisualDelete(ev, io) ==
    /\ mode = "FileTreeVisual"
    /\ ev.code = "Char" /\ ev.ch = "d"
    /\ Deliver("FileTreeVisualDelete", ev,
               LET d == delete_selected_files(Cur, io)
               IN IF d.result # "Ok" THEN d
                  ELSE [d EXCEPT !.tree.visual_anchor = None, !.mode = "FileTree"])

FileTreeVisualYank(ev) ==
    /\ mode = "FileTreeVisual"
    /\ ev.code = "Char" /\ ev.ch \in {"y", "x"}
    /\ Deliver("FileTreeVisualYank", ev,
               LET y == yank_selected(Cur, IF ev.ch = "x" THEN "Cut" ELSE "Copy")
               IN IF y.result # "Ok" THEN y
                  ELSE [y EXCEPT !.tree.visual_anchor = None, !.mode = "FileTree"])

\* The file tree drawn between two key events: the list widget is handed
\* tree_state and, in the versions of the library that do so, puts a
\* selection that is outside the list back inside (none for an empty list).
FileTreeDraw ==
    /\ result = "Ok"
    /\ mode \in {"FileTree", "FileTreeVisual"}
    /\ IsSome(tree.selected)
    /\ Unwrap(tree.selected) >= Len(tree.visible_items)
    /\ Install([Cur EXCEPT !.tree.selected =
                               IF tree.visible_items = <<>> THEN None
                               ELSE Some(Len(tree.visible_items) - 1)])
    /\ UNCHANGED <<event, pre, probe>>

(***************************************************************************)
(* Mode::Visual, Mode::VisualBlock                                         *)
(***************************************************************************)
\* (min_row, min_col, max_row, max_col) of the anchor and the cursor.
Rect(anchor, cursor) ==
    [min_row |-> Min(anchor[1], cursor[1]), min_col |-> Min(anchor[2], cursor[2]),
     max_row |-> Max(anchor[1], cursor[1]), max_col |-> Max(anchor[2], cursor[2])]

\* The slice with the start taken as in the character-wise branch, unwrap_or(0).
block_slice_from_zero(line, min_col, max_col) ==
    ByteSlice(line, Min(ByteOfColOrZero(line, min_col), ByteOfColOrLen(line, max_col + 1)),
              ByteOfColOrLen(line, max_col + 1))

\* VisualBlock y: the byte slice of one row between the columns of the block.
block_slice(line, min_col, max_col) ==
    ByteSlice(line, ByteOfColOrLen(line, min_col), ByteOfColOrLen(line, max_col + 1))

block_yank(ta, r) ==
    [i \in 1..(r.max_row - r.min_row + 1) |->
        block_slice(Line(ta, r.min_row + i - 1), r.min_col, r.max_col)]

\* The byte offset the character-wise branches slice the first row of the
\* selection from: char_indices().nth(start_col) ... unwrap_or(0).
start_byte_of(line, start_col) == ByteOfColOrZero(line, start_col)

\* Visual y, character-wise, over the range ((start_row, start_col), (end_row, end_col)).
char_yank(ta, range) ==
    LET start_row == range[1][1]
        start_col == range[1][2]
        end_row == range[2][1]
        end_col == range[2][2]
    IN IF start_row = end_row
       THEN LET line == Line(ta, start_row)
            IN << ByteSlice(line, start_byte_of(line, start_col),
                            ByteOfColOrLen(line, end_col)) >>
       ELSE [i \in 1..(end_row - start_row + 1) |->
               LET row == start_row + i - 1
                   line == Line(ta, row)
               IN IF row = start_row
                  THEN ByteSlice(line, start_byte_of(line, start_col), ByteLen(line))
                  ELSE IF row = end_row
                  THEN ByteSlice(line, 0, ByteOfColOrLen(line, end_col))
                  ELSE line]

visual_yank(s) ==
    LET r == Rect(Unwrap(s.visual_anchor), s.textarea.cursor)
        range == SelectionRange(s.textarea)
        y == IF s.mode = "VisualBlock" THEN block_yank(s.textarea, r)
             ELSE IF IsSome(range) THEN char_yank(s.textarea, Unwrap(range))
             ELSE s.yanked
    IN IF ~IsSome(s.visual_anchor) THEN s
       ELSE [s EXCEPT !.yanked = y,
                      !.textarea = CancelSelection(@),
                      !.visual_anchor = None,
                      !.mode = "Normal",
                      !.status = "Yanked (not undoable)"]

\* VisualBlock x/d: the rows from max_row down to min_row, each replaced
\* through Jump(row, 0), delete_line_by_end, insert_str(new_line).  None: the
\* document has no row `row` any more and lines()[row] panics.
RECURSIVE block_delete_rows(_, _, _)
block_delete_rows(ta, row, r) ==
    IF row < r.min_row THEN Some(ta)
    ELSE IF row >= Len(ta.lines) THEN None
    ELSE LET line == Line(ta, row)
             start_byte == ByteOfColOrLen(line, r.min_col)
             end_byte == ByteOfColOrLen(line, r.max_col + 1)
             new_line == ByteSlice(line, 0, start_byte)
                         \o ByteSlice(line, end_byte, ByteLen(line))
         IN block_delete_rows(
                InsertStr(DeleteLineByEnd(MoveCursorJump(ta, row, 0)), <<new_line>>),
                row - 1, r)

\* Visual x/d, character-wise: the lines left, installed in a new TextArea.
char_delete_lines(ls, range) ==
    LET start_row == range[1][1]
        start_col == range[1][2]
        end_row == range[2][1]
        end_col == range[2][2]
        first_line == ls[start_row + 1]
        last_line == ls[end_row + 1]
        start_byte == start_byte_of(first_line, start_col)
        end_byte == ByteOfColOrLen(last_line, end_col)
    IN SubSeq(ls, 1, start_row)
       \o << ByteSlice(first_line, 0, start_byte)
             \o ByteSlice(last_line, end_byte, ByteLen(last_line)) >>
       \o SubSeq(ls, end_row + 2, Len(ls))

visual_delete(s) ==
    LET r == Rect(Unwrap(s.visual_anchor), s.textarea.cursor)
        range == SelectionRange(s.textarea)
        rows == block_delete_rows(s.textarea, r.max_row, r)
        ta == IF s.mode = "VisualBlock"
              THEN MoveCursorJump(Unwrap(rows), r.min_row, r.min_col)
              ELSE IF IsSome(range)
              THEN LET t == TextAreaNew(char_delete_lines(s.textarea.lines, Unwrap(range)))
                   IN MoveCursorJump(t, Unwrap(range)[1][1], Unwrap(range)[1][2])
              ELSE s.textarea
    IN IF ~IsSome(s.visual_anchor) THEN s
       ELSE IF s.mode = "VisualBlock" /\ ~IsSome(rows) THEN Panic(s)
       ELSE [s EXCEPT !.textarea = ta,
                      !.visual_anchor = None,
                      !.mode = "Normal",
                      !.status = "Deleted"]

\* VisualBlock I / A
block_insert_enter(s, position) ==
    LET r == Rect(Unwrap(s.visual_anchor), s.textarea.cursor)
        col == IF position = "Before" THEN r.min_col ELSE r.max_col + 1
        s1 == [s EXCEPT !.insert_position = position]
    IN IF ~IsSome(s.visual_anchor) THEN s1
       ELSE [s1 EXCEPT !.block_insert_col = col,
                       !.textarea = MoveCursorJump(CancelSelection(@), r.min_row, col),
                       !.mode = "BlockInsert",
                       !.status = IF position = "Before" THEN "Block Insert Before"
                                  ELSE "Block Insert After"]

InVisual == mode \in {"Visual", "VisualBlock"}

\* Esc that leaves the selection anchor in place.
VisualEscKeepsAnchor(ev) ==
    /\ InVisual
    /\ ev.code = "Esc"
    /\ Deliver("VisualEsc", ev,
               [Cur EXCEPT !.textarea = CancelSelection(@),
                           !.mode = "Normal",
                           !.status = "Normal"])

VisualEsc(ev) ==
    /\ InVisual
    /\ ev.code = "Esc"
    /\ Deliver("VisualEsc", ev,
               [Cur EXCEPT !.textarea = CancelSelection(@),
                           !.visual_anchor = None,
                           !.mode = "Normal",
                           !.status = "Normal"])

VisualYank(ev) ==
    /\ InVisual
    /\ ev.code = "Char" /\ ev.ch = "y"
    /\ Deliver("VisualYank", ev, visual_yank(Cur))

VisualDelete(ev) ==
    /\ InVisual
    /\ ev.code = "Char" /\ ev.ch \in {"x", "d"}
    /\ Deliver("VisualDelete", ev, visual_delete(Cur))

\* 'I' / 'A' without the guard self.mode == Mode::VisualBlock.
VisualInsertFromEither(ev) ==
    /\ InVisual
    /\ ev.code = "Char" /\ ev.ch \in {"I", "A"}
    /\ Deliver("VisualBlockInsert", ev,
               block_insert_enter(Cur, IF ev.ch = "I" THEN "Before" ELSE "After"))

VisualBlockInsert(ev) ==
    /\ mode = "VisualBlock"
    /\ ev.code = "Char" /\ ev.ch \in {"I", "A"}
    /\ Deliver("VisualBlockInsert", ev,
               block_insert_enter(Cur, IF ev.ch = "I" THEN "Before" ELSE "After"))

\* The keys of Visual and VisualBlock bound to a selection command.
VisualBound(ev) ==
    \/ ev.code = "Esc"
    \/ ev.code = "Char" /\ ev.ch \in {"y", "x", "d"}
    \/ ev.code = "Char" /\ ev.ch \in {"I", "A"} /\ mode = "VisualBlock"

\* Any other key goes to TextArea::input with shift set: an arrow moves the
\* cursor and selects, a character is inserted.
VisualArrow(ev) ==
    /\ InVisual
    /\ ArrowMoveOf(ev) # "None" /\ ev.mods # "CONTROL"
    /\ Deliver("VisualArrow", ev,
               [Cur EXCEPT !.textarea = MoveWithShift(@, NextCursor(@, ArrowMoveOf(ev)), TRUE)])

VisualChar(ev) ==
    /\ InVisual
    /\ ev.code = "Char" /\ ev.mods # "CONTROL"
    /\ ~VisualBound(ev)
    /\ Deliver("VisualChar", ev, [Cur EXCEPT !.textarea = InsertChar(@, ev.ch)])

(***************************************************************************)
(* Mode::BlockInsert                                                       *)
(***************************************************************************)
\* " ".repeat(n)
Spaces(n) == [i \in 1..n |-> " "]

\* BlockInsert Char(c): the rows min_row .. max_row, each padded to the
\* tracked column and replaced with c inserted there.  None: lines()[row] panics.
RECURSIVE block_insert_rows(_, _, _, _, _)
block_insert_rows(ta, row, max_row, target_col, c) ==
    IF row > max_row THEN Some(ta)
    ELSE IF row >= Len(ta.lines) THEN None
    ELSE LET line == Line(ta, row)
             padded == IF target_col > Len(line)
                       THEN line \o Spaces(target_col - Len(line)) ELSE line
             start_byte == ByteOfColOrLen(padded, target_col)
             new_line == ByteSlice(padded, 0, start_byte) \o <<c>>
                         \o ByteSlice(padded, start_byte, ByteLen(padded))
         IN block_insert_rows(
                InsertStr(DeleteLineByEnd(MoveCursorJump(ta, row, 0)), <<new_line>>),
                row + 1, max_row, target_col, c)

\* BlockInsert Backspace: the character at the tracked column removed from each row.
RECURSIVE block_backspace_rows(_, _, _, _)
block_backspace_rows(ta, row, max_row, target_col) ==
    IF row > max_row THEN Some(ta)
    ELSE IF row >= Len(ta.lines) THEN None
    ELSE LET line == Line(ta, row)
             new_line == IF target_col < Len(line)
                         THEN Take(line, target_col) \o Drop(line, target_col + 1)
                         ELSE line
         IN block_backspace_rows(
                InsertStr(DeleteLineByEnd(MoveCursorJump(ta, row, 0)), <<new_line>>),
                row + 1, max_row, target_col)

\* The column Backspace does not go below, taken from the anchor and the
\* cursor as they are now.
original_col(s) ==
    LET r == Rect(Unwrap(s.visual_anchor), s.textarea.cursor)
    IN IF s.insert_position = "Before" THEN r.min_col ELSE r.max_col + 1

\* Typing into the block without self.block_insert_col += 1.
block_insert_char_keeps_col(s, c) ==
    LET r == Rect(Unwrap(s.visual_anchor), s.textarea.cursor)
        rows == block_insert_rows(s.textarea, r.min_row, r.max_row, s.block_insert_col, c)
    IN IF ~IsSome(rows) THEN Panic(s)
       ELSE [s EXCEPT !.textarea = MoveCursorJump(Unwrap(rows), r.min_row,
                                                  s.block_insert_col)]

block_insert_char(s, c) ==
    LET r == Rect(Unwrap(s.visual_anchor), s.textarea.cursor)
        rows == block_insert_rows(s.textarea, r.min_row, r.max_row, s.block_insert_col, c)
    IN IF ~IsSome(rows) THEN Panic(s)
       ELSE [s EXCEPT !.textarea = MoveCursorJump(Unwrap(rows), r.min_row,
                                                  s.block_insert_col + 1),
                      !.block_insert_col = @ + 1]

block_insert_backspace(s) ==
    LET r == Rect(Unwrap(s.visual_anchor), s.textarea.cursor)
        col == s.block_insert_col - 1
        rows == block_backspace_rows(s.textarea, r.min_row, r.max_row, col)
    IN IF s.block_insert_col > original_col(s)
       THEN (IF ~IsSome(rows) THEN Panic([s EXCEPT !.block_insert_col = col])
             ELSE [s EXCEPT !.textarea = MoveCursorJump(Unwrap(rows), r.min_row, col),
                            !.block_insert_col = col])
       ELSE s

\* Leaving BlockInsert without self.visual_anchor = None.
block_insert_esc_keeps_anchor(s) == [s EXCEPT !.mode = "Normal", !.status = "Normal"]

\* BlockInsert Esc
block_insert_esc(s) ==
    [s EXCEPT !.visual_anchor = None, !.mode = "Normal", !.status = "Normal"]

BlockInsertEsc(ev) ==
    /\ mode = "BlockInsert"
    /\ IsSome(visual_anchor)
    /\ ev.code = "Esc"
    /\ Deliver("BlockInsertEsc", ev, block_insert_esc(Cur))

BlockInsertChar(ev) ==
    /\ mode = "BlockInsert"
    /\ IsSome(visual_anchor)
    /\ ev.code = "Char"
    /\ Deliver("BlockInsertChar", ev, block_insert_char(Cur, ev.ch))

BlockInsertBackspace(ev) ==
    /\ mode = "BlockInsert"
    /\ IsSome(visual_anchor)
    /\ ev.code = "Backspace"
    /\ Deliver("BlockInsertBackspace", ev, block_insert_backspace(Cur))

\* BlockInsert, any other key: nothing.
BlockInsertOther(ev) ==
    /\ mode = "BlockInsert"
    /\ IsSome(visual_anchor)
    /\ ev.code \notin {"Esc", "Char", "Backspace"}
    /\ Deliver("BlockInsertOther", ev, Cur)

(***************************************************************************)
(* App::new: the session after construction on the document with lines doc *)
(***************************************************************************)
InitWith(doc, observer) ==
    /\ mode = "Normal"
    /\ textarea = TextAreaNew(doc)
    /\ key_sequence = <<>>
    /\ status = "Normal"
    /\ yanked = <<>>
    /\ visual_anchor = None
    /\ insert_position = "Before"
    /\ block_insert_col = 0
    /\ history = << AllFiles[1] >>
    /\ history_index = 0
    /\ file = AllFiles[1]
    /\ completion_state = NoCompletion
    /\ search_state = NoSearch
    /\ tag_files = NoTagFiles
    /\ command = <<>>
    /\ prev_mode = None
    /\ tree = NoTree
    /\ tags = TagsOf(1)
    /\ backlinks = BacklinksOf(1)
    /\ view = "Editor"
    /\ should_quit = FALSE
    /\ disk = DiskWith(doc)
    /\ event = NoKey
    /\ result = "Ok"
    /\ pre = [arm |-> "new", mode |-> "Normal", key_sequence |-> <<>>,
              status |-> "Normal", lines |-> TextAreaNew(doc).lines, cursor |-> <<0, 0>>,
              selection_start |-> None, yanked |-> <<>>, visual_anchor |-> None,
              block_insert_col |-> 0, history |-> << AllFiles[1] >>,
              history_index |-> 0, file |-> AllFiles[1],
              command |-> <<>>, prev_mode |-> None,
              completion_state |-> NoCompletion,
              tags |-> TagsOf(1), backlinks |-> BacklinksOf(1),
              search_state |-> NoSearch, tag_files |-> NoTagFiles,
              tree |-> NoTree, view |-> "Editor"]
    /\ probe = observer

Esc == Key("Esc", "", "NONE")
Fail(what) == [fail |-> what, rows |-> 0]
Rows(n) == [fail |-> "none", rows |-> n]

(***************************************************************************)
(* SpecKeys: key sequences.  The user types the characters of the command  *)
(* table, three other characters and Ctrl-o in Normal mode, "z" in the     *)
(* file tree, and leaves every other mode with Esc.                        *)
(***************************************************************************)
DocKeys == << <<"a", "b">>, <<"c">> >>
KeysEdits == 1      \* changes the user makes to a document under SpecKeys
KeysNav == 2        \* documents the navigation history holds under SpecKeys
KeysNormal ==
    {Char(c) : c \in {"g", "y", "d", "x", "i", "z", Backslash, "o", "b", "t", "f",
                      "T"}}
    \cup {Ctrl("o")}
KeysTree == {Char("z"), Esc}
IoKeys == {Rows(1), Fail("lookup")}

\* The step A of a session in which the user makes at most e changes to a
\* document and has at most n documents in the navigation history.
Limited(A, e, n) == A /\ Len(textarea'.edits) <= e /\ Len(history') <= n

InitKeys == InitWith(DocKeys, ProbeOff)
NextKeys ==
    \/ \E ev \in KeysNormal, io \in IoKeys :
          Limited(NormalKeySequence(ev, io), KeysEdits, KeysNav)
    \/ \E ev \in KeysNormal : NormalStartSequence(ev)
    \/ \E ev \in KeysNormal, io \in IoKeys : NormalBack(ev, io)
    \/ \E ev \in KeysNormal : NormalInsert(ev)
    \/ \E ev \in KeysNormal : Limited(NormalOpenLine(ev), KeysEdits, KeysNav)
    \/ \E ev \in KeysNormal : Limited(NormalDeleteChar(ev), KeysEdits, KeysNav)
    \/ InsertEsc(Esc)
    \/ SearchEsc(Esc)
    \/ \E ev \in KeysTree : FileTreeKeySequence(ev)
    \/ \E ev \in KeysTree : FileTreeStartSequence(ev)
    \/ \E ev \in KeysTree : FileTreeEsc(ev)
SpecKeys == InitKeys /\ [][NextKeys]_vars

(***************************************************************************)
(* SpecTop: the user moves the cursor, deletes and types "g" sequences in  *)
(* Normal mode, and leaves Insert mode with Esc.                           *)
(***************************************************************************)
DocTop == << <<"a", "b">>, <<"c">> >>
TopEdits == 1       \* changes the user makes to the document under SpecTop
KeysTop == {Char(c) : c \in {"g", "x", "i", "l", "j", "y"}} \cup {Ctrl("o")}

InitTop == InitWith(DocTop, ProbeOff)
NextTop ==
    \/ \E ev \in KeysTop : NormalKeySequence(ev, NoIo)
    \/ \E ev \in KeysTop : NormalStartSequence(ev)
    \/ \E ev \in KeysTop : NormalBack(ev, NoIo)
    \/ \E ev \in KeysTop : NormalInsert(ev)
    \/ \E ev \in KeysTop : Limited(NormalDeleteChar(ev), TopEdits, MaxNav)
    \/ \E ev \in KeysTop : NormalMove(ev)
    \/ InsertEsc(Esc)
SpecTop == InitTop /\ [][NextTop]_vars

(***************************************************************************)
(* SpecVisual: entering and leaving the selection modes.  The user moves   *)
(* the cursor in Normal mode, enters Visual or VisualBlock, extends the    *)
(* selection with the arrows, and yanks, deletes, escapes or goes on to    *)
(* BlockInsert, which they leave with Esc.                                 *)
(***************************************************************************)
DocVisual == << <<"a">>, <<"b">> >>
VisualEdits == 2    \* history edits of the document under SpecVisual
KeysVisualNormal == {Char("v"), Ctrl("v"), Char("l")}
KeysVisual ==
    {Key("Right", "", "NONE"), Key("Down", "", "NONE"),
     Char("y"), Char("x"), Char("d"), Esc}
KeysVisualBlock == {Char("I"), Char("A")}      \* typed in VisualBlock only

InitVisual == InitWith(DocVisual, ProbeOff)
NextVisual ==
    \/ \E ev \in KeysVisualNormal : NormalVisual(ev)
    \/ \E ev \in KeysVisualNormal : NormalVisualBlock(ev)
    \/ \E ev \in KeysVisualNormal : NormalMove(ev)
    \/ \E ev \in KeysVisual : VisualArrow(ev)
    \/ \E ev \in KeysVisual : VisualYank(ev)
    \/ \E ev \in KeysVisual : Limited(VisualDelete(ev), VisualEdits, MaxNav)
    \/ \E ev \in KeysVisualBlock : VisualBlockInsert(ev)
    \/ \E ev \in KeysVisual : VisualEsc(ev)
    \/ BlockInsertEsc(Esc)
SpecVisual == InitVisual /\ [][NextVisual]_vars

(***************************************************************************)
(* SpecCharwise: character-wise selections.  The user moves the cursor in  *)
(* Normal mode, enters Visual, selects with the arrows and yanks, deletes  *)
(* or escapes.                                                             *)
(***************************************************************************)
DocCharwise == << <<WideChar, "b">>, <<"f">> >>
KeysCharwiseNormal == {Char("v"), Char("l")}
KeysCharwise ==
    {Key("Right", "", "NONE"), Key("Left", "", "NONE"), Key("Down", "", "NONE"),
     Char("y"), Char("x"), Esc}

InitCharwise == InitWith(DocCharwise, ProbeOff)
NextCharwise ==
    \/ \E ev \in KeysCharwiseNormal : NormalVisual(ev)
    \/ \E ev \in KeysCharwiseNormal : NormalMove(ev)
    \/ \E ev \in KeysCharwise : VisualArrow(ev)
    \/ \E ev \in KeysCharwise : VisualYank(ev)
    \/ \E ev \in KeysCharwise : VisualDelete(ev)
    \/ \E ev \in KeysCharwise : VisualEsc(ev)
SpecCharwise == InitCharwise /\ [][NextCharwise]_vars

(***************************************************************************)
(* SpecBlockYank: block-wise yanks.  The user moves the cursor in Normal   *)
(* mode, enters VisualBlock, moves with the arrows and yanks or escapes.   *)
(***************************************************************************)
DocBlockYank == << <<WideChar, "b">>, <<>>, <<"f", "g">> >>
KeysBlockYankNormal == {Ctrl("v"), Char("l"), Char("j")}
KeysBlockYank ==
    {Key("Right", "", "NONE"), Key("Left", "", "NONE"), Key("Down", "", "NONE"),
     Key("Up", "", "NONE"), Char("y"), Esc}

InitBlockYank == InitWith(DocBlockYank, ProbeOff)
NextBlockYank ==
    \/ \E ev \in KeysBlockYankNormal : NormalVisualBlock(ev)
    \/ \E ev \in KeysBlockYankNormal : NormalMove(ev)
    \/ \E ev \in KeysBlockYank : VisualArrow(ev)
    \/ \E ev \in KeysBlockYank : VisualYank(ev)
    \/ \E ev \in KeysBlockYank : VisualEsc(ev)
SpecBlockYank == InitBlockYank /\ [][NextBlockYank]_vars

(***************************************************************************)
(* SpecNav: navigation.  The user opens the dated notes and the first hit  *)
(* of a file search, goes back and forward, and leaves Insert and Search   *)
(* with Esc; the index may fail any of these calls.                        *)
(***************************************************************************)
DocNav == << <<"a">> >>
NavEdits == 1       \* changes the user makes to a document under SpecNav
KeysNav_Normal ==
    {Char(c) : c \in {Backslash, "o", "t", "y", "T", "f"}} \cup {Ctrl("o"), Ctrl("i")}
KeysNav_Search == {Key("Enter", "", "NONE"), Esc}
IoNav == {Rows(1), Fail("lookup"), Fail("load_tags"), Fail("load_backlinks"), Fail("path")}

InitNav == InitWith(DocNav, ProbeOff)
NextNav ==
    \/ \E ev \in KeysNav_Normal, io \in IoNav :
          Limited(NormalKeySequence(ev, io), NavEdits, MaxNav)
    \/ \E ev \in KeysNav_Normal : NormalStartSequence(ev)
    \/ \E ev \in KeysNav_Normal, io \in IoNav : NormalBack(ev, io)
    \/ \E ev \in KeysNav_Normal, io \in IoNav : NormalForward(ev, io)
    \/ \E ev \in KeysNav_Normal : Limited(NormalOpenLine(ev), NavEdits, MaxNav)
    \/ InsertEsc(Esc)
    \/ \E ev \in KeysNav_Search : SearchEsc(ev)
    \/ \E ev \in KeysNav_Search, io \in IoNav : SearchEnter(ev, io)
SpecNav == InitNav /\ [][NextNav]_vars

(***************************************************************************)
(* SpecEdit: typing and undoing.  The user enters Insert mode, moves and   *)
(* selects with the arrows, types, leaves with Esc and presses 'u'.        *)
(***************************************************************************)
DocEdit == << <<"a">> >>
KeysEditNormal == {Char("i"), Char("u")}
EditEdits == 3      \* changes the user makes to the document under SpecEdit
KeysEditInsert == {Char("x"), Char("["), Key("Right", "", "SHIFT"), Esc}

InitEdit == InitWith(DocEdit, ProbeIdle)
NextEdit ==
    \/ \E ev \in KeysEditNormal : NormalInsert(ev)
    \/ \E ev \in KeysEditNormal : NormalUndo(ev)
    \/ \E ev \in KeysEditInsert : Limited(InsertKeyChar(ev, NoIo), EditEdits, MaxNav)
    \/ \E ev \in KeysEditInsert : InsertArrow(ev, NoIo)
    \/ \E ev \in KeysEditInsert : InsertEsc(ev)
    \/ \E ev \in KeysEditInsert : CompleteEsc(ev)
SpecEdit == InitEdit /\ [][NextEdit]_vars

(***************************************************************************)
(* SpecCharDelete: character-wise deletes over several rows.  The user     *)
(* moves in Normal mode, enters Visual, selects in either direction and    *)
(* deletes or escapes.                                                     *)
(***************************************************************************)
DocCharDelete == << <<WideChar, "b">>, <<"c">>, <<"d", "e">> >>
KeysCharDeleteNormal == {Char("v"), Char("l"), Char("j")}
KeysCharDelete ==
    {Key("Right", "", "NONE"), Key("Left", "", "NONE"), Key("Down", "", "NONE"),
     Key("Up", "", "NONE"), Char("x"), Char("d"), Esc}

InitCharDelete == InitWith(DocCharDelete, ProbeOff)
NextCharDelete ==
    \/ \E ev \in KeysCharDeleteNormal : NormalVisual(ev)
    \/ \E ev \in KeysCharDeleteNormal : NormalMove(ev)
    \/ \E ev \in KeysCharDelete : VisualArrow(ev)
    \/ \E ev \in KeysCharDelete : VisualDelete(ev)
    \/ \E ev \in KeysCharDelete : VisualEsc(ev)
SpecCharDelete == InitCharDelete /\ [][NextCharDelete]_vars

(***************************************************************************)
(* SpecBlockInsert: block insert.  The user moves in Normal mode, marks a  *)
(* block with Ctrl-v and the arrows in either direction, presses 'I' and   *)
(* types; once the document has changed the user marks no further block.   *)
(***************************************************************************)
BlockInsertEdits == 6   \* changes to the document under SpecBlockInsert
DocBlockInsert == << <<"a", "b">>, <<"c">>, <<"d", "e">> >>
KeysBlockInsertNormal == {Ctrl("v"), Char("l"), Char("j")}
KeysBlockInsertVisual ==
    {Key("Right", "", "NONE"), Key("Down", "", "NONE"), Key("Up", "", "NONE"),
     Char("I"), Esc}
KeysBlockInsert == {Char("x"), Esc}

InitBlockInsert == InitWith(DocBlockInsert, ProbeIdle)
NextBlockInsert ==
    \/ \E ev \in KeysBlockInsertNormal : Limited(NormalVisualBlock(ev), 0, MaxNav)
    \/ \E ev \in KeysBlockInsertNormal : Limited(NormalMove(ev), 0, MaxNav)
    \/ \E ev \in KeysBlockInsertVisual : VisualArrow(ev)
    \/ \E ev \in KeysBlockInsertVisual : VisualBlockInsert(ev)
    \/ \E ev \in KeysBlockInsertVisual : VisualEsc(ev)
    \/ \E ev \in KeysBlockInsert : Limited(BlockInsertChar(ev), BlockInsertEdits, MaxNav)
    \/ \E ev \in KeysBlockInsert : BlockInsertEsc(ev)
SpecBlockInsert == InitBlockInsert /\ [][NextBlockInsert]_vars

(***************************************************************************)
(* SpecComplete: completion.  The user enters Insert mode on an empty      *)
(* document and types text with '#', deletes with Backspace and leaves     *)
(* with Esc; the provider answers every request with one suggestion or     *)
(* with an error.                                                          *)
(***************************************************************************)
DocComplete == << <<>> >>
CompleteEdits == 4  \* changes to the document under SpecComplete
Backspace == Key("Backspace", "", "NONE")
Enter == Key("Enter", "", "NONE")
KeysCompleteNormal == {Char("i")}
KeysComplete == {Char("#"), Char("["), Char("t"), Char(WideChar), Backspace, Enter, Esc}
IoComplete == {Rows(1), Fail("suggest")}

InitComplete == InitWith(DocComplete, ProbeOff)
NextComplete ==
    \/ \E ev \in KeysCompleteNormal : NormalInsert(ev)
    \/ \E ev \in KeysComplete : InsertEsc(ev)
    \/ \E ev \in KeysComplete, io \in IoComplete :
          Limited(InsertKeyChar(ev, io), CompleteEdits, MaxNav)
    \/ \E ev \in KeysComplete, io \in IoComplete :
          Limited(InsertBackspace(ev, io), CompleteEdits, MaxNav)
    \/ \E ev \in KeysComplete, io \in IoComplete :
          Limited(CompleteKeyChar(ev, io), CompleteEdits, MaxNav)
    \/ \E ev \in KeysComplete, io \in IoComplete :
          Limited(CompleteBackspace(ev, io), CompleteEdits, MaxNav)
    \/ \E ev \in KeysComplete : CompleteEsc(ev)
    \/ \E ev \in KeysComplete : Limited(CompleteEnter(ev), CompleteEdits, MaxNav)
SpecComplete == InitComplete /\ [][NextComplete]_vars

(***************************************************************************)
(* SpecCommand: the command line.  The user opens it with ':' in Normal    *)
(* mode or with 'r' / 'n' in the file tree, types, deletes, runs the       *)
(* command with Enter or leaves with Esc; the file system and the indexer  *)
(* may fail.                                                               *)
(***************************************************************************)
DocCommand == << <<"a">> >>
MaxTyped == 2       \* characters typed into the command line
MaxTree == 3        \* files in the tree
KeysCommandNormal == {Char(":"), Char(Backslash), Char("t")}
KeysCommandTree == {Char("r"), Char("n"), Esc}
KeysCommand == {Char("w"), Char("q"), Key("Enter", "", "NONE"), Backspace, Esc}
IoCommand == {NoIo, Fail("write"), Fail("scanner"), Fail("rename")}

InitCommand == InitWith(DocCommand, ProbeOff)
NextCommand ==
    \/ \E ev \in KeysCommandNormal : NormalCommand(ev)
    \/ \E ev \in KeysCommandNormal : NormalStartSequence(ev)
    \/ \E ev \in KeysCommandNormal : NormalKeySequence(ev, NoIo)
    \/ \E ev \in KeysCommandTree : FileTreeCommand(ev)
    \/ \E ev \in KeysCommandTree : FileTreeEsc(ev)
    \/ \E ev \in KeysCommand :
          /\ CommandKeyChar(ev)
          /\ Len(command') <= MaxTyped + (IF StartsWith(command, CmdRename) THEN Len(CmdRename)
                                          ELSE IF StartsWith(command, CmdNew) THEN Len(CmdNew)
                                          ELSE 0)
    \/ \E ev \in KeysCommand : CommandBackspace(ev)
    \/ \E ev \in KeysCommand : CommandEsc(ev)
    \/ \E ev \in KeysCommand, io \in IoCommand :
          CommandEnter(ev, io) /\ Len(tree'.visible_items) <= MaxTree
SpecCommand == InitCommand /\ [][NextCommand]_vars

(***************************************************************************)
(* SpecNormal: the single keys of Normal mode.  The user presses the keys  *)
(* that change the mode, with and without Control, other bound keys, a     *)
(* character that starts a sequence, Enter and Esc, and leaves Insert,     *)
(* Visual, VisualBlock and Command mode with Esc.                          *)
(***************************************************************************)
DocNormal == << <<"[", "[", "]", "]">>, <<"t">> >>
NormalEdits == 1    \* changes the user makes to a document under SpecNormal
NormalNav == 2      \* documents the navigation history holds under SpecNormal
KeysNormalSingle ==
    {Char(c) : c \in {"i", "a", "o", "v", ":", "u", "j", "g"}}
    \cup {Ctrl(c) : c \in {"i", "a", "o", "v"}}
    \cup {Enter, Esc}
IoNormal == {NoIo, Fail("lookup")}

InitNormal == InitWith(DocNormal, ProbeOff)
NextNormal ==
    \/ \E ev \in KeysNormalSingle : NormalKeySequence(ev, NoIo)
    \/ \E ev \in KeysNormalSingle, io \in IoNormal : NormalBack(ev, io)
    \/ \E ev \in KeysNormalSingle, io \in IoNormal : NormalForward(ev, io)
    \/ \E ev \in KeysNormalSingle : NormalUndo(ev)
    \/ \E ev \in KeysNormalSingle : NormalInsert(ev)
    \/ \E ev \in KeysNormalSingle : NormalAppend(ev)
    \/ \E ev \in KeysNormalSingle : Limited(NormalOpenLine(ev), NormalEdits, NormalNav)
    \/ \E ev \in KeysNormalSingle : NormalVisualBlock(ev)
    \/ \E ev \in KeysNormalSingle : NormalVisual(ev)
    \/ \E ev \in KeysNormalSingle : NormalCommand(ev)
    \/ \E ev \in KeysNormalSingle : NormalMove(ev)
    \/ \E ev \in KeysNormalSingle : NormalStartSequence(ev)
    \/ \E ev \in KeysNormalSingle : NormalUnsupported(ev)
    \/ \E ev \in KeysNormalSingle, io \in IoNormal :
          Limited(NormalEnter(ev, io), NormalEdits, NormalNav)
    \/ \E ev \in KeysNormalSingle : InsertEsc(ev)
    \/ \E ev \in KeysNormalSingle : VisualEsc(ev)
    \/ \E ev \in KeysNormalSingle : CommandEsc(ev)
SpecNormal == InitNormal /\ [][NextNormal]_vars

(***************************************************************************)
(* SpecSelect: the keys of Visual and VisualBlock mode.  The user marks a  *)
(* selection with 'v' or Ctrl-v, extends it with Down, and presses the     *)
(* selection commands and 'I' and 'A' in either mode.                      *)
(***************************************************************************)
DocSelect == << <<"a">>, <<"b">> >>
SelectEdits == 2    \* history edits of the document under SpecSelect
KeysSelectNormal == {Char("v"), Ctrl("v")}
KeysSelect ==
    {Key("Down", "", "NONE"), Char("y"), Char("x"), Char("d"), Char("I"), Char("A"), Esc}

InitSelect == InitWith(DocSelect, ProbeOff)
NextSelect ==
    \/ \E ev \in KeysSelectNormal : NormalVisual(ev)
    \/ \E ev \in KeysSelectNormal : NormalVisualBlock(ev)
    \/ \E ev \in KeysSelect : VisualArrow(ev)
    \/ \E ev \in KeysSelect : VisualYank(ev)
    \/ \E ev \in KeysSelect : Limited(VisualDelete(ev), SelectEdits, MaxNav)
    \/ \E ev \in KeysSelect : VisualBlockInsert(ev)
    \/ \E ev \in KeysSelect : Limited(VisualChar(ev), SelectEdits, MaxNav)
    \/ \E ev \in KeysSelect : VisualEsc(ev)
    \/ \E ev \in KeysSelect : BlockInsertEsc(ev)
SpecSelect == InitSelect /\ [][NextSelect]_vars

(***************************************************************************)
(* SpecUndo: the keys that change the document, and 'u'.  The user deletes *)
(* with x and dd, pastes, opens a line, types a tag and commits its        *)
(* completion, deletes a selection, types into a block and undoes; a       *)
(* change is started on a document whose undo history is empty.            *)
(***************************************************************************)
DocUndo == << <<"a">> >>
UndoEdits == 2      \* history edits a command of SpecUndo adds to
UndoTyped == 3      \* history edits typing adds to under SpecUndo
KeysUndoNormal ==
    {Char(c) : c \in {"x", "d", "p", "o", "i", "v", "u"}} \cup {Ctrl("v")}
KeysUndoInsert == {Char("#"), Char("t"), Enter, Esc}
KeysUndoVisual == {Key("Right", "", "NONE"), Char("x"), Char("I"), Esc}
KeysUndoBlock == {Char("t"), Backspace, Esc}
IoUndo == {Rows(1)}

\* The user starts a change on a document without undo history only.
NoHistory == textarea.edits = <<>>

InitUndo == InitWith(DocUndo, ProbeOff)
NextUndo ==
    \/ \E ev \in KeysUndoNormal : NoHistory /\ Limited(NormalDeleteChar(ev), UndoEdits, MaxNav)
    \/ \E ev \in KeysUndoNormal : NoHistory /\ NormalStartSequence(ev)
    \/ \E ev \in KeysUndoNormal, io \in IoUndo :
          Limited(NormalKeySequence(ev, io), UndoEdits, MaxNav)
    \/ \E ev \in KeysUndoNormal : NoHistory /\ Limited(NormalPaste(ev), UndoEdits, MaxNav)
    \/ \E ev \in KeysUndoNormal : NoHistory /\ Limited(NormalOpenLine(ev), UndoEdits, MaxNav)
    \/ \E ev \in KeysUndoNormal : NoHistory /\ NormalInsert(ev)
    \/ \E ev \in KeysUndoNormal : NoHistory /\ NormalVisual(ev)
    \/ \E ev \in KeysUndoNormal : NoHistory /\ NormalVisualBlock(ev)
    \/ \E ev \in KeysUndoNormal : NormalUndo(ev)
    \/ \E ev \in KeysUndoInsert, io \in IoUndo :
          Limited(InsertKeyChar(ev, io), UndoTyped, MaxNav)
    \/ \E ev \in KeysUndoInsert : InsertEsc(ev)
    \/ \E ev \in KeysUndoInsert, io \in IoUndo :
          Limited(CompleteKeyChar(ev, io), UndoTyped, MaxNav)
    \/ \E ev \in KeysUndoInsert : Limited(CompleteEnter(ev), UndoEdits, MaxNav)
    \/ \E ev \in KeysUndoInsert : CompleteEsc(ev)
    \/ \E ev \in KeysUndoVisual : VisualArrow(ev)
    \/ \E ev \in KeysUndoVisual : Limited(VisualDelete(ev), UndoEdits, MaxNav)
    \/ \E ev \in KeysUndoVisual : VisualBlockInsert(ev)
    \/ \E ev \in KeysUndoVisual : VisualEsc(ev)
    \/ \E ev \in KeysUndoBlock : Limited(BlockInsertChar(ev), UndoEdits, MaxNav)
    \/ \E ev \in KeysUndoBlock : Limited(BlockInsertBackspace(ev), UndoEdits, MaxNav)
    \/ \E ev \in KeysUndoBlock : BlockInsertEsc(ev)
SpecUndo == InitUndo /\ [][NextUndo]_vars

(***************************************************************************)
(* SpecSwitch: document switches.  The user changes the first note with    *)
(* 'x', undoes and redoes, and opens notes by the link under the cursor,   *)
(* by a search result, by a file of a tag, by a dated note, from the file  *)
(* tree and by going back and forward; the index may fail.                 *)
(***************************************************************************)
DocSwitch == << <<"b", "c">> >>
SwitchEdits == 1    \* changes the user makes to a document under SpecSwitch
SwitchNav == 2      \* documents the navigation history holds under SpecSwitch
KeysSwitchNormal ==
    {Char(c) : c \in {"x", "u", Backslash, "o", "t", "f"}}
    \cup {Ctrl("r"), Ctrl("o"), Ctrl("i"), Enter}
KeysSwitch == {Enter, Esc}
IoSwitch == {Rows(1), Fail("load_tags")}

InitSwitch == InitWith(DocSwitch, ProbeOff)
NextSwitch ==
    \/ \E ev \in KeysSwitchNormal : Limited(NormalDeleteChar(ev), SwitchEdits, SwitchNav)
    \/ \E ev \in KeysSwitchNormal : NormalUndo(ev)
    \/ \E ev \in KeysSwitchNormal : NormalRedo(ev)
    \/ \E ev \in KeysSwitchNormal : NormalStartSequence(ev)
    \/ \E ev \in KeysSwitchNormal, io \in IoSwitch :
          Limited(NormalKeySequence(ev, io), SwitchEdits, SwitchNav)
    \/ \E ev \in KeysSwitchNormal, io \in IoSwitch :
          Limited(NormalEnter(ev, io), SwitchEdits, SwitchNav)
    \/ \E ev \in KeysSwitchNormal, io \in IoSwitch : NormalBack(ev, io)
    \/ \E ev \in KeysSwitchNormal, io \in IoSwitch : NormalForward(ev, io)
    \/ \E ev \in KeysSwitch, io \in IoSwitch :
          Limited(SearchEnter(ev, io), SwitchEdits, SwitchNav)
    \/ \E ev \in KeysSwitch : SearchEsc(ev)
    \/ \E ev \in KeysSwitch, io \in IoSwitch :
          Limited(TagFilesEnter(ev, io), SwitchEdits, SwitchNav)
    \/ \E ev \in KeysSwitch : TagFilesEsc(ev)
    \/ \E ev \in KeysSwitch, io \in IoSwitch :
          Limited(FileTreeEnter(ev, io), SwitchEdits, SwitchNav)
    \/ \E ev \in KeysSwitch : FileTreeEsc(ev)
SpecSwitch == InitSwitch /\ [][NextSwitch]_vars

(***************************************************************************)
(* SpecYank: the yank register.  The user yanks and deletes lines with yy  *)
(* and dd, marks selections with 'v' and Ctrl-v, yanks and deletes them,   *)
(* and pastes.                                                             *)
(***************************************************************************)
DocYank == << <<"a">>, <<"b">> >>
YankEdits == 2      \* history edits of the document under SpecYank
KeysYankNormal == {Char(c) : c \in {"y", "d", "p", "v", "j"}} \cup {Ctrl("v")}
KeysYank == {Key("Right", "", "NONE"), Char("y"), Char("x"), Esc}

InitYank == InitWith(DocYank, ProbeOff)
NextYank ==
    \/ \E ev \in KeysYankNormal : NormalStartSequence(ev)
    \/ \E ev \in KeysYankNormal : Limited(NormalKeySequence(ev, NoIo), YankEdits, MaxNav)
    \/ \E ev \in KeysYankNormal : Limited(NormalPaste(ev), YankEdits, MaxNav)
    \/ \E ev \in KeysYankNormal : NormalMove(ev)
    \/ \E ev \in KeysYankNormal : NormalVisual(ev)
    \/ \E ev \in KeysYankNormal : NormalVisualBlock(ev)
    \/ \E ev \in KeysYank : VisualArrow(ev)
    \/ \E ev \in KeysYank : VisualYank(ev)
    \/ \E ev \in KeysYank : Limited(VisualDelete(ev), YankEdits, MaxNav)
    \/ \E ev \in KeysYank : VisualEsc(ev)
SpecYank == InitYank /\ [][NextYank]_vars

(***************************************************************************)
(* SpecBlockDelete: block-wise delete.  The user moves to the corner of a  *)
(* block, marks it with Ctrl-v, extends it with the arrows and deletes it  *)
(* with 'x'; no further block is marked once the document has changed.     *)
(***************************************************************************)
DocBlockDelete == << <<"a", "b">>, <<>>, <<"c", "d">> >>
BlockDeleteEdits == 6   \* history edits one block delete adds under SpecBlockDelete
KeysBlockDeleteNormal == {Ctrl("v"), Char("j"), Char("l")}
KeysBlockDelete ==
    {Key("Right", "", "NONE"), Key("Down", "", "NONE"), Key("Up", "", "NONE"),
     Char("x"), Esc}

InitBlockDelete == InitWith(DocBlockDelete, ProbeOff)
NextBlockDelete ==
    \/ \E ev \in KeysBlockDeleteNormal : Limited(NormalVisualBlock(ev), 0, MaxNav)
    \/ \E ev \in KeysBlockDeleteNormal : Limited(NormalMove(ev), 0, MaxNav)
    \/ \E ev \in KeysBlockDelete : VisualArrow(ev)
    \/ \E ev \in KeysBlockDelete : Limited(VisualDelete(ev), BlockDeleteEdits, MaxNav)
    \/ \E ev \in KeysBlockDelete : VisualEsc(ev)
SpecBlockDelete == InitBlockDelete /\ [][NextBlockDelete]_vars

(***************************************************************************)
(* SpecBlockKeys: the keys of BlockInsert mode.  The user marks a block    *)
(* or a character-wise selection, presses 'I' or 'A' in Normal, Visual and *)
(* VisualBlock mode, and in BlockInsert types, erases, presses an arrow    *)
(* and Esc; no further selection is marked once the document has changed.  *)
(***************************************************************************)
DocBlockKeys == << <<"a">>, <<"c", "d">> >>
BlockKeysEdits == 6     \* history edits typing into a block adds under SpecBlockKeys
KeysBlockKeysNormal == {Ctrl("v"), Char("v"), Char("j"), Char("I")}
KeysBlockKeysVisual ==
    {Key("Right", "", "NONE"), Key("Down", "", "NONE"), Key("Up", "", "NONE"),
     Char("I"), Char("A"), Esc}
KeysBlockKeys == {Char("x"), Backspace, Key("Left", "", "NONE"), Esc}

InitBlockKeys == InitWith(DocBlockKeys, ProbeIdle)
NextBlockKeys ==
    \/ \E ev \in KeysBlockKeysNormal : Limited(NormalVisualBlock(ev), 0, MaxNav)
    \/ \E ev \in KeysBlockKeysNormal : Limited(NormalVisual(ev), 0, MaxNav)
    \/ \E ev \in KeysBlockKeysNormal : Limited(NormalMove(ev), 0, MaxNav)
    \/ \E ev \in KeysBlockKeysNormal : Limited(NormalStartSequence(ev), 0, MaxNav)
    \/ \E ev \in KeysBlockKeysNormal : NormalKeySequence(ev, NoIo)
    \/ \E ev \in KeysBlockKeysVisual : VisualArrow(ev)
    \/ \E ev \in KeysBlockKeysVisual : VisualBlockInsert(ev)
    \/ \E ev \in KeysBlockKeysVisual : Limited(VisualChar(ev), 1, MaxNav)
    \/ \E ev \in KeysBlockKeysVisual : VisualEsc(ev)
    \/ \E ev \in KeysBlockKeys : Limited(BlockInsertChar(ev), BlockKeysEdits, MaxNav)
    \/ \E ev \in KeysBlockKeys : Limited(BlockInsertBackspace(ev), BlockKeysEdits, MaxNav)
    \/ \E ev \in KeysBlockKeys : BlockInsertOther(ev)
    \/ \E ev \in KeysBlockKeys : BlockInsertEsc(ev)
SpecBlockKeys == InitBlockKeys /\ [][NextBlockKeys]_vars

(***************************************************************************)
(* Sessions that go between Normal mode and the file tree with key         *)
(* sequences begun in either.                                              *)
(***************************************************************************)
DocPrefix == << <<"a">>, <<"b">> >>
PrefixEdits == 2    \* changes the user makes to a document under SpecPrefix
PrefixNav == 3      \* documents the navigation history holds under SpecPrefix
KeysPrefixNormal == {Char(c) : c \in {Backslash, "t", "g", "d", "j"}}
KeysPrefixTree == {Char("g"), Char("d"), Char("o"), Enter, Esc}
IoPrefix == {Rows(1)}

InitPrefix == InitWith(DocPrefix, ProbeOff)
NextPrefix ==
    \/ \E ev \in KeysPrefixNormal : NormalStartSequence(ev)
    \/ \E ev \in KeysPrefixNormal, io \in IoPrefix :
          Limited(NormalKeySequence(ev, io), PrefixEdits, PrefixNav)
    \/ \E ev \in KeysPrefixNormal : NormalMove(ev)
    \/ \E ev \in KeysPrefixTree : FileTreeStartSequence(ev)
    \/ \E ev \in KeysPrefixTree : FileTreeKeySequence(ev)
    \/ \E ev \in KeysPrefixTree : FileTreeEsc(ev)
    \/ \E ev \in KeysPrefixTree, io \in IoPrefix :
          Limited(FileTreeEnter(ev, io), PrefixEdits, PrefixNav)
SpecPrefix == InitPrefix /\ [][NextPrefix]_vars

(***************************************************************************)
(* Sessions that move through the lists of suggestions, of search results  *)
(* and of the files of a tag.                                              *)
(***************************************************************************)
DocLists == << <<"a">> >>
ListsEdits == 2     \* changes the user makes to a document under SpecLists
ListsQuery == 1     \* characters the user types into a search under SpecLists
KeysListsNormal == {Char(c) : c \in {"i", Backslash, "o", "t"}}
KeysLists ==
    {Char("#"), Char(WideChar), Backspace, Enter, Esc,
     Key("Up", "", "NONE"), Key("Down", "", "NONE")}
IoLists == {Rows(0), Rows(2)}
ListsSel == 2       \* the largest index a list selection takes under SpecLists

\* No list selection is above n.
SelectedWithin(n) ==
    \A o \in {completion_state.selected, search_state.selected, tag_files.selected} :
        IsSome(o) => Unwrap(o) <= n

InitLists == InitWith(DocLists, ProbeOff)
NextLists ==
    \/ \E ev \in KeysListsNormal : NormalInsert(ev)
    \/ \E ev \in KeysListsNormal : NormalStartSequence(ev)
    \/ \E ev \in KeysListsNormal, io \in IoLists : NormalKeySequence(ev, io)
    \/ \E ev \in KeysLists : InsertEsc(ev)
    \/ \E ev \in KeysLists, io \in IoLists :
          Limited(InsertKeyChar(ev, io), ListsEdits, MaxNav)
    \/ \E ev \in KeysLists, io \in IoLists :
          Limited(CompleteKeyChar(ev, io), ListsEdits, MaxNav)
    \/ \E ev \in KeysLists, io \in IoLists :
          Limited(CompleteBackspace(ev, io), ListsEdits, MaxNav)
    \/ \E ev \in KeysLists : CompleteEsc(ev)
    \/ \E ev \in KeysLists : CompleteUp(ev)
    \/ \E ev \in KeysLists, build \in Builds :
          CompleteDown(ev, build) /\ SelectedWithin(ListsSel)'
    \/ \E ev \in KeysLists : SearchEsc(ev)
    \/ \E ev \in KeysLists, io \in IoLists : SearchEnter(ev, io)
    \/ \E ev \in KeysLists : SearchUp(ev)
    \/ \E ev \in KeysLists, build \in Builds :
          SearchDown(ev, build) /\ SelectedWithin(ListsSel)'
    \/ \E ev \in KeysLists, io \in IoLists :
          SearchKeyChar(ev, io) /\ Len(search_state'.query) <= ListsQuery
    \/ \E ev \in KeysLists, io \in IoLists : SearchBackspace(ev, io)
    \/ \E ev \in KeysLists : TagFilesEsc(ev)
    \/ \E ev \in KeysLists : TagFilesUp(ev)
    \/ \E ev \in KeysLists, build \in Builds :
          TagFilesDown(ev, build) /\ SelectedWithin(ListsSel)'
SpecLists == InitLists /\ [][NextLists]_vars

(***************************************************************************)
(* Sessions in the file tree: moving, selecting, yanking and deleting.     *)
(***************************************************************************)
DocTree == << <<"a">> >>
TreeSel == 2        \* the largest index the tree selection takes under SpecTree
KeysTreeNormal == {Char(Backslash), Char("t")}
KeysTreeKeys ==
    {Key("Up", "", "NONE"), Key("Down", "", "NONE"), Key("Left", "", "NONE"),
     Char("v"), Char("d"), Char("y"), Esc}
IoTree == {Rows(1), Fail("scanner")}

InitTree == InitWith(DocTree, ProbeOff)
NextTree ==
    \/ \E ev \in KeysTreeNormal : NormalStartSequence(ev)
    \/ \E ev \in KeysTreeNormal, io \in IoTree : NormalKeySequence(ev, io)
    \/ \E ev \in KeysTreeKeys : FileTreeEsc(ev)
    \/ \E ev \in KeysTreeKeys : FileTreeUp(ev)
    \/ \E ev \in KeysTreeKeys, build \in Builds :
          /\ FileTreeDown(ev, build)
          /\ IsSome(tree'.selected) => Unwrap(tree'.selected) <= TreeSel
    \/ \E ev \in KeysTreeKeys : FileTreeSide(ev)
    \/ \E ev \in KeysTreeKeys : FileTreeVisualStart(ev)
    \/ \E ev \in KeysTreeKeys, io \in IoTree : FileTreeDelete(ev, io)
    \/ \E ev \in KeysTreeKeys : FileTreeYank(ev)
    \/ \E ev \in KeysTreeKeys : FileTreeVisualEsc(ev)
    \/ \E ev \in KeysTreeKeys : FileTreeVisualUp(ev)
    \/ \E ev \in KeysTreeKeys, build \in Builds :
          /\ FileTreeVisualDown(ev, build)
          /\ IsSome(tree'.selected) => Unwrap(tree'.selected) <= TreeSel
    \/ \E ev \in KeysTreeKeys, io \in IoTree : FileTreeVisualDelete(ev, io)
    \/ \E ev \in KeysTreeKeys : FileTreeVisualYank(ev)
    \/ FileTreeDraw
SpecTree == InitTree /\ [][NextTree]_vars

(***************************************************************************)
(* Sessions that press keys with no selection command in Visual and        *)
(* VisualBlock mode.                                                       *)
(***************************************************************************)
DocVisualKeys == << <<"a">>, <<"b">> >>
VisualKeysEdits == 1    \* history edits of the document under SpecVisualKeys
KeysVisualKeysNormal == {Char("v"), Ctrl("v")}
KeysVisualKeys ==
    {Key("Right", "", "NONE"), Key("Down", "", "NONE"),
     Char("h"), Char("y"), Char("I"), Esc}

InitVisualKeys == InitWith(DocVisualKeys, ProbeOff)
NextVisualKeys ==
    \/ \E ev \in KeysVisualKeysNormal : NormalVisual(ev)
    \/ \E ev \in KeysVisualKeysNormal : NormalVisualBlock(ev)
    \/ \E ev \in KeysVisualKeys : VisualArrow(ev)
    \/ \E ev \in KeysVisualKeys : VisualYank(ev)
    \/ \E ev \in KeysVisualKeys : VisualBlockInsert(ev)
    \/ \E ev \in KeysVisualKeys : Limited(VisualChar(ev), VisualKeysEdits, MaxNav)
    \/ \E ev \in KeysVisualKeys : VisualEsc(ev)
    \/ \E ev \in KeysVisualKeys : BlockInsertEsc(ev)
SpecVisualKeys == InitVisualKeys /\ [][NextVisualKeys]_vars

(***************************************************************************)
(* The command table of Normal mode as the specification gives it, and     *)
(* what the last key event did to the session.                             *)
(***************************************************************************)
CommandTable ==
    {SeqGG, SeqYY, SeqDD, SeqOB, SeqOT, SeqF, SeqOOT, SeqOOY, SeqOOTomorrow, SeqT}
IsProperPrefix(seq) ==
    \E e \in CommandTable : Len(seq) < Len(e) /\ SubSeq(e, 1, Len(seq)) = seq

\* The last event was a character key delivered in Normal mode while a key
\* sequence was under way; Typed is the buffer with that character appended.
InSequence ==
    pre.arm # "new" /\ pre.mode = "Normal" /\ pre.key_sequence # <<>>
    /\ event.code = "Char"
Typed == Append(pre.key_sequence, event.ch)

\* The last event left the document, the cursor, the mode, the yank register
\* and the place in the navigation history as they were.
Untouched ==
    /\ textarea.lines = pre.lines
    /\ textarea.cursor = pre.cursor
    /\ mode = pre.mode
    /\ yanked = pre.yanked
    /\ history = pre.history
    /\ history_index = pre.history_index
    /\ file = pre.file

C2_BufferIsPrefix ==
    result = "Ok" => (key_sequence = <<>> \/ IsProperPrefix(key_sequence))

\* "z" typed in Normal mode with an empty buffer stays in the buffer.
C2_Witness ==
    /\ pre.arm = "NormalStartSequence" /\ event = Char("z")
    /\ mode = "Normal" /\ key_sequence = <<"z">>

\* C3: in Normal mode with a non-empty prefix buffer, a character key whose
\* appended result is neither a table entry nor a prefix of one is consumed:
\* the buffer is emptied, the invalid-sequence status set, and the key's own
\* command is not executed.
C3_InvalidKeyConsumed ==
    (InSequence /\ Typed \notin CommandTable /\ ~IsProperPrefix(Typed)) =>
        /\ key_sequence = <<>>
        /\ status = "Invalid sequence 1"
        /\ Untouched
        /\ textarea.edits = <<>> \/ textarea.edits[Len(textarea.edits)].after = pre.lines

\* "g" then Ctrl-o with a document to go back to: no navigation.
C3_Witness ==
    /\ InSequence /\ pre.key_sequence = <<"g">> /\ event = Ctrl("o")
    /\ pre.history_index = 1
    /\ history_index = 1
    /\ status = "Invalid sequence 1"

\* The status a table command leaves, and what shows that it ran.
StatusOf(e) ==
    CASE e = SeqGG -> "Moved to top"
      [] e = SeqYY -> "Yanked line (not undoable)"
      [] e = SeqDD -> "Deleted line"
      [] e = SeqOB -> "Started backlinks search"
      [] e = SeqOT -> "Started tags search"
      [] e = SeqF -> "Started files search"
      [] e = SeqOOT -> "Opened today's file"
      [] e = SeqOOY -> "Opened yesterday's file"
      [] e = SeqOOTomorrow -> "Opened tomorrow's file"
      [] e = SeqT -> "Entered File Tree mode"
      [] OTHER -> "Normal"
EffectOf(e) ==
    CASE e = SeqGG -> textarea.cursor[1] = 0
      [] e = SeqYY -> yanked = << pre.lines[pre.cursor[1] + 1] >>
      [] e = SeqDD -> textarea.cursor[2] = 0 /\ textarea.edit_index = Len(textarea.edits)
      [] e = SeqOB -> mode = "Search" /\ search_state.search_type = "Backlinks"
      [] e = SeqOT -> mode = "Search" /\ search_state.search_type = "Tags"
      [] e = SeqF -> mode = "Search" /\ search_state.search_type = "Files"
      [] e = SeqOOT -> file[1] = "today" /\ history[history_index + 1] = file
      [] e = SeqOOY -> file[1] = "yesterday" /\ history[history_index + 1] = file
      [] e = SeqOOTomorrow -> file[1] = "tomorrow" /\ history[history_index + 1] = file
      [] e = SeqT -> mode = "FileTree"
      [] OTHER -> FALSE

\* C4: typing character keys in Normal mode, a table command fires exactly at
\* the key at which the buffer equals a table entry (and the buffer is empty
\* afterwards); while the buffer is a proper prefix of an entry nothing fires
\* and the buffer grows; any other buffer fires nothing either.
C4_FiresOnExactMatch ==
    /\ (InSequence /\ result = "Ok") =>
          IF Typed \in CommandTable
          THEN key_sequence = <<>> /\ status = StatusOf(Typed) /\ EffectOf(Typed)
          ELSE /\ Untouched
               /\ IF IsProperPrefix(Typed)
                  THEN key_sequence = Typed /\ status = pre.status
                  ELSE status = "Invalid sequence 1"
    /\ pre.arm = "NormalStartSequence" =>
          key_sequence = <<event.ch>> /\ status = pre.status /\ Untouched

\* The longest entry fired: backslash, "o", "o", "T" opened tomorrow's note.
C4_Witness ==
    /\ InSequence /\ Typed = SeqOOTomorrow /\ result = "Ok"
    /\ pre.file[1] = "note"
    /\ file[1] = "tomorrow"
    /\ key_sequence = <<>>

\* C5: the selection anchor is set exactly in the modes Visual, VisualBlock
\* and BlockInsert.
C5_AnchorIffSelecting ==
    IsSome(visual_anchor) <=> mode \in {"Visual", "VisualBlock", "BlockInsert"}

\* Esc in BlockInsert, entered from a block selection, ended in Normal mode
\* with no anchor.
C5_Witness ==
    /\ pre.arm = "BlockInsertEsc" /\ pre.mode = "BlockInsert"
    /\ IsSome(pre.visual_anchor)
    /\ mode = "Normal" /\ visual_anchor = None

\* The character-wise selection the last event found: its two ends in order.
SelectionFound == pre.mode = "Visual" /\ IsSome(pre.selection_start)
SelFrom ==
    IF PosLess(pre.cursor, Unwrap(pre.selection_start)) THEN pre.cursor
    ELSE Unwrap(pre.selection_start)
SelTo ==
    IF PosLess(pre.cursor, Unwrap(pre.selection_start)) THEN Unwrap(pre.selection_start)
    ELSE pre.cursor

\* C9: a column at or beyond the end of a line translates to the end of the
\* line: a character-wise yank takes the first row of the selection from its
\* start column on (nothing when that column is the end of the line), and a
\* character-wise delete keeps the first row up to the start column and the
\* last row from the end column on.
C9_ColumnClampsToLength ==
    (SelectionFound /\ pre.arm \in {"VisualYank", "VisualDelete"} /\ result = "Ok") =>
        LET first == pre.lines[SelFrom[1] + 1]
            last == pre.lines[SelTo[1] + 1]
        IN IF pre.arm = "VisualYank"
           THEN yanked[1] = IF SelFrom[1] = SelTo[1]
                            THEN SubSeq(first, SelFrom[2] + 1, SelTo[2])
                            ELSE Drop(first, SelFrom[2])
           ELSE textarea.lines[SelFrom[1] + 1]
                    = Take(first, SelFrom[2]) \o Drop(last, SelTo[2])

\* A character-wise delete of the line break after the first row: the
\* selection started at the end of the row, and the row is gone.
C9_Witness ==
    /\ SelectionFound /\ pre.arm = "VisualDelete"
    /\ SelFrom = <<0, 2>> /\ SelTo = <<1, 0>>
    /\ pre.lines = DocCharwise
    /\ textarea.lines = << <<"f">> >>

\* C10: a block-wise yank stores one string per row of the block, the
\* characters of that row at the columns of the block, as far as the row is
\* long; no row length makes the call fail.
C10_BlockYankClamped ==
    (pre.arm = "VisualYank" /\ pre.mode = "VisualBlock") =>
        LET anchor == Unwrap(pre.visual_anchor)
            min_row == Min(anchor[1], pre.cursor[1])
            max_row == Max(anchor[1], pre.cursor[1])
            min_col == Min(anchor[2], pre.cursor[2])
            max_col == Max(anchor[2], pre.cursor[2])
        IN /\ result = "Ok"
           /\ Len(yanked) = max_row - min_row + 1
           /\ \A i \in 1..Len(yanked) :
                 LET row == pre.lines[min_row + i]
                 IN /\ yanked[i] = SubSeq(row, min_col + 1, Min(max_col + 1, Len(row)))
                    /\ Len(yanked[i]) <= max_col - min_col + 1
                    /\ Len(row) <= min_col => yanked[i] = <<>>

\* A block over three rows at column 1, the middle row empty.
C10_Witness ==
    /\ pre.arm = "VisualYank" /\ pre.mode = "VisualBlock"
    /\ pre.lines = DocBlockYank
    /\ yanked = << <<"b">>, <<>>, <<"g">> >>

\* The last event opened a document other than by going back or forward:
\* one of the dated notes, or the hit of a search.
OpenedNote ==
    InSequence /\ Typed \in {SeqOOT, SeqOOY, SeqOOTomorrow}
OpenedHit ==
    pre.arm = "SearchEnter" /\ file # pre.file
Note(name) == <<name, FileIdOf(name)>>

\* C6: opening a document other than by back or forward discards the history
\* entries after the current one, appends the new entry and makes it current;
\* going back makes the entry before current; with the history [A, B, C] and A
\* current, opening D leaves [A, D] with D current, and forward at the last
\* entry does nothing.
C6_OpenTruncatesForward ==
    /\ ((OpenedNote \/ OpenedHit) /\ result = "Ok") =>
          /\ history = Append(SubSeq(pre.history, 1, pre.history_index + 1), file)
          /\ history_index = pre.history_index + 1
    /\ (OpenedNote /\ result = "Ok") =>
          file = Note(CASE Typed = SeqOOT -> "today"
                        [] Typed = SeqOOY -> "yesterday"
                        [] OTHER -> "tomorrow")
    /\ (pre.arm = "NormalBack" /\ pre.history_index > 0 /\ result = "Ok") =>
          /\ history = pre.history
          /\ file = pre.history[pre.history_index]
    /\ (OpenedNote /\ result = "Ok" /\ Len(pre.history) = 3 /\ pre.history_index = 0) =>
          history = <<pre.history[1], file>> /\ history_index = 1
    /\ (pre.arm = "NormalForward" /\ pre.history_index = Len(pre.history) - 1) =>
          /\ history = pre.history /\ history_index = pre.history_index
          /\ file = pre.file /\ result = "Ok"
          /\ status = "No next file in history"

\* With the history [note, today, yesterday] and note current, tomorrow's
\* note was opened.
C6_Witness ==
    /\ OpenedNote /\ result = "Ok"
    /\ pre.history = <<Note("note"), Note("today"), Note("yesterday")>>
    /\ pre.history_index = 0
    /\ history = <<Note("note"), Note("tomorrow")>>
    /\ history_index = 1

\* C7: the history is never empty and history_index is one of its indices,
\* also after a call that returned an error; back moves the index by -1 when
\* it is above 0 and forward by +1 when it is below the last index, and
\* otherwise they leave it.
C7_IndexWithinHistory ==
    /\ Len(history) >= 1
    /\ 0 <= history_index /\ history_index <= Len(history) - 1
    /\ pre.arm = "NormalBack" =>
          /\ history = pre.history
          /\ history_index = IF pre.history_index > 0 THEN pre.history_index - 1
                             ELSE pre.history_index
    /\ pre.arm = "NormalForward" =>
          /\ history = pre.history
          /\ history_index = IF pre.history_index < Len(pre.history) - 1
                             THEN pre.history_index + 1
                             ELSE pre.history_index

\* Going back returned an error after moving the index.
C7_Witness ==
    /\ pre.arm = "NormalBack" /\ result = "Err"
    /\ pre.history_index = 2
    /\ history_index = 1

\* The user typed probe.n characters in Insert mode, returned to Normal mode
\* and has now pressed 'u' probe.n times; probe.base holds the lines as they
\* were before the first character.
UndoneAll == probe.phase = "undoing" /\ probe.k = probe.n

\* C8: n characters typed in Insert mode and then n presses of 'u' in Normal
\* mode leave the document lines as they were before the first character.
C8_UndoRestoresLines ==
    UndoneAll => textarea.lines = probe.base

\* One character was typed over a selection and one 'u' was pressed.
C8_Witness ==
    /\ UndoneAll /\ probe.n = 1
    /\ pre.arm = "NormalUndo"
    /\ probe.base = DocEdit
    /\ textarea.lines = << <<>> >>

\* The last event was 'x' or 'd' in Visual over a selection whose two ends
\* are on different rows.
DeletedAcrossRows ==
    SelectionFound /\ pre.arm = "VisualDelete" /\ SelFrom[1] # SelTo[1]

\* C11: a character-wise delete over rows start_row..end_row leaves the single
\* row line[start_row][:start_col] + line[end_row][end_col:] in their place,
\* removes the rows between and leaves every other row as it was, for every
\* start column up to the length of the first row and every end column up to
\* the length of the last row.
C11_DeleteJoinsEndRows ==
    DeletedAcrossRows =>
        textarea.lines =
            SubSeq(pre.lines, 1, SelFrom[1])
            \o << Take(pre.lines[SelFrom[1] + 1], SelFrom[2])
                  \o Drop(pre.lines[SelTo[1] + 1], SelTo[2]) >>
            \o SubSeq(pre.lines, SelTo[1] + 2, Len(pre.lines))

\* The selection was made backwards from (2,1) to the end of row 0, and the
\* delete left row 0 without its text.
C11_Witness ==
    /\ DeletedAcrossRows
    /\ pre.lines = DocCharDelete
    /\ Unwrap(pre.visual_anchor) = <<2, 1>> /\ pre.cursor = <<0, 2>>
    /\ textarea.lines = << <<"e">> >>

\* The line with the character c at column col, after padding with spaces a
\* line that is shorter than col.
WithCharAt(line, col, c) ==
    LET padded == IF col > Len(line) THEN line \o [i \in 1..(col - Len(line)) |-> " "]
                  ELSE line
    IN Take(padded, col) \o <<c>> \o Drop(padded, col)

\* The last event typed the first character after 'I' on the block of rows
\* probe.n .. probe.k.
TypedIntoBlock ==
    /\ probe.phase = "blocktyped"
    /\ pre.status = "Block Insert Before"

\* C12: the character typed after 'I' is inserted at the insert column in
\* every row of the block, whichever of the anchor and the cursor was on the
\* top row, after padding a row shorter than the insert column with spaces.
C12_EveryRowGetsChar ==
    TypedIntoBlock =>
        /\ result = "Ok"
        /\ \A row \in probe.n..probe.k :
              /\ row < Len(textarea.lines)
              /\ textarea.lines[row + 1]
                    = WithCharAt(probe.base[row + 1], pre.block_insert_col, event.ch)

\* The block was marked from (0,0) down to (2,0); the character went into
\* row 0 only.
C12_Witness ==
    /\ TypedIntoBlock
    /\ probe.base = DocBlockInsert
    /\ Unwrap(pre.visual_anchor) = <<0, 0>>
    /\ probe.n = 0 /\ probe.k = 2
    /\ textarea.lines = << <<"x", "a", "b">>, <<"c">>, <<"d", "e">> >>

\* The text before the cursor, in characters, and the columns at which the
\* trigger of the completion under way starts in it.
TextBeforeCursor == Take(Line(textarea, textarea.cursor[1]), textarea.cursor[2])
TriggerColumns(trig) ==
    {i \in 0..(Len(TextBeforeCursor) - Len(trig)) :
        SubSeq(TextBeforeCursor, i + 1, i + Len(trig)) = trig}

\* The characters between the last trigger before the cursor and the cursor.
QueryChars(trig) ==
    LET at == CHOOSE i \in TriggerColumns(trig) : \A j \in TriggerColumns(trig) : j <= i
    IN Drop(TextBeforeCursor, at + Len(trig))

\* The last event was handled with a completion under way and its trigger
\* before the cursor.
Completing ==
    /\ pre.arm \in {"InsertKeyChar", "CompleteKeyChar", "CompleteBackspace"}
    /\ completion_state.active
    /\ TriggerColumns(TriggerOf(completion_state.completion_type)) # {}

\* The provider was asked: it answered with its suggestion or with an error.
Requested == result = "Err" \/ completion_state.suggestions # <<>>

\* C13: with a completion under way the provider is asked exactly when the
\* query between the trigger and the cursor has two characters or more; a
\* Backspace that leaves a shorter query empties the suggestions, asks
\* nothing and stays in Complete mode.
C13_QueryOfTwoChars ==
    Completing =>
        LET q == QueryChars(TriggerOf(completion_state.completion_type))
        IN /\ Requested <=> Len(q) >= 2
           /\ (pre.arm = "CompleteBackspace" /\ Len(q) < 2) =>
                 /\ completion_state.suggestions = <<>>
                 /\ result = "Ok"
                 /\ mode = "Complete"

\* '#' and one two-byte character were typed, and the provider answered.
C13_Witness ==
    /\ Completing /\ pre.arm = "CompleteKeyChar"
    /\ textarea.lines = << <<"#", WideChar>> >>
    /\ completion_state.query = <<WideChar>>
    /\ completion_state.suggestions # <<>>

\* The last event was a Backspace in Complete mode with the cursor where it
\* was when the completion started, right after the trigger: it deleted the
\* '#', or the second bracket of the "[[", that started the completion.
DeletedTrigger ==
    /\ pre.arm = "CompleteBackspace"
    /\ pre.cursor = completion_state.trigger_start
    /\ textarea.lines # pre.lines

\* C14: a Backspace that deletes the trigger of the completion cancels the
\* completion and sets the mode to Insert, whatever else the line holds.
C14_DeletedTriggerCancels ==
    DeletedTrigger =>
        /\ mode = "Insert"
        /\ ~completion_state.active
        /\ result = "Ok"

\* The second '#' of "##" started the completion and was deleted; the
\* completion goes on with the first.
C14_Witness ==
    /\ DeletedTrigger
    /\ pre.lines = << <<"#", "#">> >>
    /\ textarea.lines = << <<"#">> >>
    /\ mode = "Complete" /\ completion_state.active

\* C15: no failure of a collaborator while a key is handled ends the event
\* loop: the call returns to the loop, which goes on to the next key in the
\* mode that was active before the key.
C15_FailureKeepsLoop ==
    pre.arm = "CommandEnter" =>
        /\ result = "Ok"
        /\ pre.command \in {<<"w">>, <<"w", "q">>} /\ status # "Saved" => mode = pre.mode

\* ':' 'w' Enter with a failing write: handle_input returned the error.
C15_Witness ==
    /\ pre.arm = "CommandEnter"
    /\ pre.command = <<"w">> /\ pre.prev_mode = Some("Normal")
    /\ result = "Err"
    /\ mode = "Command" /\ status = "Command"

\* C18: Esc and an Enter whose command succeeded set the mode to the mode
\* Command mode was entered from and empty the command text; outside Command
\* mode the command text is empty.
C18_CommandReturnsToPriorMode ==
    /\ (pre.arm \in {"CommandEsc", "CommandEnter"} /\ result = "Ok") =>
          /\ IsSome(pre.prev_mode)
          /\ mode = Unwrap(pre.prev_mode)
          /\ command = <<>>
    /\ pre.arm = "NormalCommand" => mode = "Command" /\ prev_mode = Some("Normal")
    /\ pre.arm = "FileTreeCommand" => mode = "Command" /\ prev_mode = Some("FileTree")
    /\ mode # "Command" => command = <<>>

\* A rename entered from the file tree ran and the file tree is back.
C18_Witness ==
    /\ pre.arm = "CommandEnter" /\ result = "Ok"
    /\ pre.prev_mode = Some("FileTree")
    /\ pre.command = CmdRename \o <<"w">>
    /\ mode = "FileTree" /\ command = <<>>
    /\ tree.visible_items[1].path = "w"

(***************************************************************************)
(* C16: in Normal mode with an empty prefix buffer 'i', 'a' and 'o' set    *)
(* the mode to Insert, 'v' to Visual, Ctrl-'v' to VisualBlock and ':' to   *)
(* Command, and no other key event leaves Normal mode; with a non-empty    *)
(* prefix buffer none of these keys changes the mode.                      *)
(***************************************************************************)
ModeKeyTable(ev) ==
    CASE ev \in {Char("i"), Char("a"), Char("o")} -> "Insert"
      [] ev = Char("v") -> "Visual"
      [] ev = Ctrl("v") -> "VisualBlock"
      [] ev = Char(":") -> "Command"
      [] OTHER -> "Normal"

ModeKeys == {Char("i"), Char("a"), Char("o"), Char("v"), Ctrl("v"), Char(":")}

AfterNormalKey == pre.arm # "new" /\ pre.mode = "Normal" /\ result = "Ok"

\* C16: a key event handled in Normal mode leaves the mode the table gives
\* for it when the prefix buffer was empty, and Normal mode when the buffer
\* was not empty and the key is one of the table.
C16_ModeKeysOfNormal ==
    AfterNormalKey =>
        IF pre.key_sequence = <<>> THEN mode = ModeKeyTable(event)
        ELSE (event \in ModeKeys => mode = "Normal")

\* Control with 'a' pressed in Normal mode with an empty prefix buffer.
C16_Witness ==
    /\ AfterNormalKey
    /\ pre.key_sequence = <<>>
    /\ event = Ctrl("a")
    /\ mode = "Insert"

(***************************************************************************)
(* C17: from Visual or VisualBlock, Esc, 'y', 'x' and 'd' lead to Normal   *)
(* with the anchor cleared; 'I' and 'A' lead from VisualBlock to           *)
(* BlockInsert with the anchor kept; every other key, 'I' and 'A' in       *)
(* Visual among them, leaves the mode unchanged.                           *)
(***************************************************************************)
AfterVisualKey ==
    pre.arm # "new" /\ pre.mode \in {"Visual", "VisualBlock"} /\ result = "Ok"

ChangedLines ==
    /\ pre.arm \notin {"new", "NormalUndo", "NormalRedo"}
    /\ result = "Ok"
    /\ file = pre.file
    /\ textarea.lines # pre.lines

\* C19: after a key event that changed the lines, the text area has an edit
\* to undo.
C19_ChangeCanBeUndone == ChangedLines => CanUndo(textarea)

\* 'x' in character-wise Visual mode has deleted the selection and left
\* Normal mode with nothing to undo.
C19_Witness ==
    /\ ChangedLines
    /\ pre.arm = "VisualDelete"
    /\ pre.mode = "Visual"
    /\ mode = "Normal"
    /\ ~CanUndo(textarea)

(***************************************************************************)
(* C20: after a document switch the undo and the redo history are empty:   *)
(* 'u' and Ctrl-r leave the lines of the new document unchanged.           *)
(***************************************************************************)
\* The last key event opened a document: it recorded one in the navigation
\* history or moved along it.
Switched ==
    /\ pre.arm # "new"
    /\ result = "Ok"
    /\ (history # pre.history \/ history_index # pre.history_index)

\* C20: after a key event that opened a document the text area holds the
\* lines of that document as they are on disk and has nothing to undo and
\* nothing to redo, so that 'u' and Ctrl-r change no line.
C20_SwitchEmptiesUndoHistory ==
    Switched =>
        /\ textarea.lines = TextAreaNew(disk[file[2]]).lines
        /\ ~CanUndo(textarea)
        /\ ~CanRedo(textarea)
        /\ Undo(textarea).lines = textarea.lines
        /\ Redo(textarea).lines = textarea.lines

\* The link under the cursor followed from the first note after the user
\* had changed it.
C20_Witness ==
    /\ Switched
    /\ pre.arm = "NormalEnter"
    /\ pre.file = AllFiles[1]
    /\ pre.lines # DocSwitch
    /\ file # pre.file

(***************************************************************************)
(* C21: the yank register holds the text of the most recent yank or        *)
(* delete: yy, 'y', dd and 'x'/'d' on a selection each overwrite it.       *)
(***************************************************************************)
\* The text area as the last key event found it.
PreArea ==
    [lines |-> pre.lines, cursor |-> pre.cursor, selection_start |-> pre.selection_start]

\* The last key event completed the sequence seq in Normal mode.
Completed(seq) ==
    /\ pre.arm = "NormalKeySequence"
    /\ result = "Ok"
    /\ Append(pre.key_sequence, event.ch) = seq

\* The text the selection the last key event found covers.
SelectedText ==
    IF pre.mode = "VisualBlock"
    THEN block_yank(PreArea, Rect(Unwrap(pre.visual_anchor), pre.cursor))
    ELSE char_yank(PreArea, Unwrap(SelectionRange(PreArea)))

\* The last key event was 'y' (arm "VisualYank") or 'x'/'d' (arm
\* "VisualDelete") on a selection that covers text.
OnSelection(arm) ==
    /\ pre.arm = arm
    /\ result = "Ok"
    /\ IsSome(pre.visual_anchor)
    /\ (pre.mode = "Visual" => IsSome(SelectionRange(PreArea)))

\* C21: after yy and after dd the register holds the line the cursor was on;
\* after 'y' and after 'x'/'d' on a selection it holds the selected text.
C21_RegisterHoldsLastYankOrDelete ==
    /\ Completed(SeqYY) => yanked = << Line(PreArea, pre.cursor[1]) >>
    /\ Completed(SeqDD) => yanked = << Line(PreArea, pre.cursor[1]) >>
    /\ OnSelection("VisualYank") => yanked = SelectedText
    /\ OnSelection("VisualDelete") => yanked = SelectedText

\* dd on the line "b" with "a" in the register from an earlier yy: the
\* register still holds "a".
C21_Witness ==
    /\ Completed(SeqDD)
    /\ Line(PreArea, pre.cursor[1]) = <<"b">>
    /\ textarea.lines # pre.lines
    /\ yanked = << <<"a">> >>

(***************************************************************************)
(* C22: back at history index 0 and forward at the last history entry      *)
(* return success and change nothing but the status message.               *)
(***************************************************************************)
\* What the last key event found is what the session holds, the status aside.
OnlyStatusChanged ==
    /\ result = "Ok"
    /\ history = pre.history
    /\ history_index = pre.history_index
    /\ file = pre.file
    /\ textarea.lines = pre.lines
    /\ textarea.cursor = pre.cursor
    /\ textarea.selection_start = pre.selection_start
    /\ mode = pre.mode
    /\ key_sequence = pre.key_sequence
    /\ yanked = pre.yanked
    /\ visual_anchor = pre.visual_anchor

BackAtFirst == pre.arm = "NormalBack" /\ pre.history_index = 0
ForwardAtLast == pre.arm = "NormalForward" /\ pre.history_index = Len(pre.history) - 1

\* C22: Ctrl-o at the first entry and Ctrl-i at the last entry of the
\* navigation history return Ok, set the status and change nothing else.
C22_NavigationAtEndsIsNoOp ==
    /\ BackAtFirst => OnlyStatusChanged /\ status = "No previous file in history"
    /\ ForwardAtLast => OnlyStatusChanged /\ status = "No next file in history"

\* Ctrl-i at the last of at least two entries, on a document other than the
\* first note.
C22_Witness ==
    /\ ForwardAtLast
    /\ Len(history) >= 2
    /\ file # AllFiles[1]
    /\ status = "No next file in history"

(***************************************************************************)
(* C23: block-wise delete removes from every row of the block the          *)
(* characters at the columns of the block, leaves the other rows as they   *)
(* are, and ends in Normal mode with the cursor at (min_row, min_col).     *)
(***************************************************************************)
\* The last key event was 'x' or 'd' on a block.
BlockDeleted == pre.arm = "VisualDelete" /\ pre.mode = "VisualBlock"

\* The rectangle of the block the last key event found.
PreRect == Rect(Unwrap(pre.visual_anchor), pre.cursor)

\* The lines with the columns of the rectangle r taken out of its rows.
WithoutBlock(ls, r) ==
    [i \in 1..Len(ls) |->
        IF i - 1 >= r.min_row /\ i - 1 <= r.max_row
        THEN Take(ls[i], r.min_col) \o Drop(ls[i], r.max_col + 1)
        ELSE ls[i]]

\* C23: after 'x' or 'd' on a block the lines are the lines found without
\* the columns of the block, the cursor is at its upper left corner and the
\* mode is Normal.
C23_BlockDeleteRemovesColumns ==
    BlockDeleted =>
        /\ result = "Ok"
        /\ textarea.lines = WithoutBlock(pre.lines, PreRect)
        /\ textarea.cursor = <<PreRect.min_row, PreRect.min_col>>
        /\ mode = "Normal"

\* The block of the first column over the rows "ab" and "cd" with the empty
\* row between them, deleted: the document is not ["b", "", "d"].
C23_Witness ==
    /\ BlockDeleted
    /\ pre.lines = DocBlockDelete
    /\ PreRect = [min_row |-> 0, min_col |-> 0, max_row |-> 2, max_col |-> 0]
    /\ textarea.lines # << <<"b">>, <<>>, <<"d">> >>

(***************************************************************************)
(* C24: block-wise delete never changes the number of lines.               *)
(***************************************************************************)
\* C24: after 'x' or 'd' on a block the document has as many lines as
\* before.
C24_BlockDeleteKeepsLineCount ==
    (BlockDeleted /\ result = "Ok") => Len(textarea.lines) = Len(pre.lines)

\* 'x' on a block of one cell marked on the empty row: the row is gone.
C24_Witness ==
    /\ BlockDeleted
    /\ result = "Ok"
    /\ pre.selection_start = None
    /\ PreRect = [min_row |-> 1, min_col |-> 0, max_row |-> 1, max_col |-> 0]
    /\ Len(textarea.lines) < Len(pre.lines)

(***************************************************************************)
(* C25: 'I' sets the tracked column to min_col and 'A' to max_col + 1 of   *)
(* the block; a typed character adds 1 to it, an effective Backspace takes *)
(* 1 from it, and no other key changes it.                                 *)
(***************************************************************************)
\* C25: the tracked column after a key event, by the arm that handled it.
C25_TrackedColumnSteps ==
    (pre.arm # "new" /\ result = "Ok") =>
        CASE pre.arm = "VisualBlockInsert" ->
               block_insert_col = IF event.ch = "I" THEN PreRect.min_col
                                  ELSE PreRect.max_col + 1
          [] pre.arm = "BlockInsertChar" ->
               block_insert_col = pre.block_insert_col + 1
          [] pre.arm = "BlockInsertBackspace" ->
               \/ block_insert_col = pre.block_insert_col - 1
               \/ block_insert_col = pre.block_insert_col /\ textarea.lines = pre.lines
          [] OTHER -> block_insert_col = pre.block_insert_col

\* A Backspace that took the tracked column back by one, after 'I' and a
\* typed character.
C25_Witness ==
    /\ pre.arm = "BlockInsertBackspace"
    /\ result = "Ok"
    /\ probe.phase = "blockerased"
    /\ block_insert_col = pre.block_insert_col - 1
    /\ block_insert_col = probe.col

(***************************************************************************)
(* C26: in BlockInsert the tracked column is never smaller than the column *)
(* captured when BlockInsert was entered.                                  *)
(***************************************************************************)
\* C26: while the mode is BlockInsert the tracked column is at least the
\* column 'I' or 'A' set.
C26_ColumnNotBelowCaptured ==
    (mode = "BlockInsert" /\ result = "Ok") => block_insert_col >= probe.col

\* Backspace right after 'A' on a block whose first row is shorter than the
\* block is wide: the tracked column is below the captured one.
C26_Witness ==
    /\ mode = "BlockInsert"
    /\ result = "Ok"
    /\ pre.arm = "BlockInsertBackspace"
    /\ insert_position = "After"
    /\ pre.block_insert_col = probe.col
    /\ block_insert_col < probe.col

(***************************************************************************)
(* C27: in BlockInsert, a typed character followed by Backspace leaves     *)
(* every row of the block and the tracked column as they were before the   *)
(* character was typed.                                                    *)
(***************************************************************************)
\* C27: after 'I' or 'A', one typed character and one Backspace the lines
\* are those 'I' or 'A' found and the tracked column is the one it set.
C27_TypeThenBackspace ==
    (pre.arm = "BlockInsertBackspace" /\ probe.phase = "blockerased") =>
        /\ result = "Ok"
        /\ textarea.lines = probe.base
        /\ block_insert_col = probe.col

\* 'A', a character and Backspace: the character is still in the document
\* and the tracked column one to the right.
C27_Witness ==
    /\ pre.arm = "BlockInsertBackspace"
    /\ probe.phase = "blockerased"
    /\ result = "Ok"
    /\ insert_position = "After"
    /\ textarea.lines # probe.base
    /\ block_insert_col = probe.col + 1

(***************************************************************************)
(* C28: BlockInsert is entered only from VisualBlock by 'I' or 'A'; Esc    *)
(* leaves it for Normal mode and clears the anchor; every other key leaves *)
(* the mode BlockInsert.                                                   *)
(***************************************************************************)
\* C28: how BlockInsert mode is entered and left.
C28_BlockInsertEntryAndExit ==
    (pre.arm # "new" /\ result = "Ok") =>
        /\ (mode = "BlockInsert" /\ pre.mode # "BlockInsert") =>
               /\ pre.mode = "VisualBlock"
               /\ event.code = "Char" /\ event.ch \in {"I", "A"}
        /\ pre.mode = "BlockInsert" =>
               IF event.code = "Esc"
               THEN mode = "Normal" /\ visual_anchor = None
               ELSE mode = "BlockInsert"

\* Esc in BlockInsert after a character was typed into the block.
C28_Witness ==
    /\ pre.mode = "BlockInsert"
    /\ result = "Ok"
    /\ event = Esc
    /\ mode = "Normal"
    /\ textarea.lines # DocBlockKeys

(* Complete mode: how it is entered and how Escape and Enter leave it. *)

\* The text before the cursor ends with one of the two triggers.
AtTrigger == EndsWith(TextBeforeCursor, <<"[", "[">>) \/ EndsWith(TextBeforeCursor, <<"#">>)

\* The completion state is the cleared one: inactive, no type, empty query
\* and empty suggestions.
Cleared ==
    /\ ~completion_state.active
    /\ completion_state.completion_type = "None"
    /\ completion_state.query = <<>>
    /\ completion_state.suggestions = <<>>

\* Before the last event a suggestion was selected.
WasSelected ==
    /\ IsSome(pre.completion_state.selected)
    /\ Unwrap(pre.completion_state.selected) < Len(pre.completion_state.suggestions)

\* C29: Complete mode is entered only from Insert, exactly when after a typed
\* character the text before the cursor ends with "[[" or "#"; from Complete,
\* Escape and Enter both lead to Insert with the completion state cleared,
\* and Enter with no selected suggestion leaves the lines unchanged.
C29_CompleteEntryAndExit ==
    (pre.arm # "new" /\ result = "Ok") =>
        /\ (mode = "Complete" /\ pre.mode # "Complete") =>
               pre.mode = "Insert" /\ event.code = "Char" /\ AtTrigger
        /\ (pre.mode = "Insert" /\ event.code = "Char") =>
               (mode = "Complete" <=> AtTrigger)
        /\ (pre.mode = "Complete" /\ event.code \in {"Esc", "Enter"}) =>
               mode = "Insert" /\ Cleared
        /\ (pre.mode = "Complete" /\ event.code = "Enter" /\ ~WasSelected) =>
               textarea.lines = pre.lines

\* Enter left Complete mode with no suggestion selected, after a "[[" entry.
C29_Witness ==
    /\ result = "Ok"
    /\ pre.arm = "CompleteEnter" /\ ~WasSelected
    /\ pre.completion_state.completion_type = "File"
    /\ mode = "Insert" /\ Cleared
    /\ textarea.lines = pre.lines

(* The sequence "dd" of Normal mode. *)

\* The lines ls without the row r (counted from 0).
WithoutRow(ls, r) == SubSeq(ls, 1, r) \o SubSeq(ls, r + 2, Len(ls))

\* C30: "dd" in a document of more than one line removes the line at the
\* cursor row, empty or not: the line count decreases by exactly one and the
\* other lines keep their content and order.
C30_DDRemovesLine ==
    (Completed(SeqDD) /\ Len(pre.lines) > 1) =>
        textarea.lines = WithoutRow(pre.lines, pre.cursor[1])

\* "dd" on a line with text in a document of two lines left both lines, the
\* one at the cursor row emptied.
C30_Witness ==
    /\ Completed(SeqDD)
    /\ Len(pre.lines) > 1
    /\ pre.lines[pre.cursor[1] + 1] # <<>>
    /\ Len(textarea.lines) = Len(pre.lines)
    /\ textarea.lines = [pre.lines EXCEPT ![pre.cursor[1] + 1] = <<>>]

(* Character-wise yank: what 'y' in Visual mode stores. *)

\* The selection the last key event found, as ((row, col), (row, col)).
PreRange == Unwrap(SelectionRange(PreArea))

\* One string per selected row: the first row from the start column, the
\* interior rows whole, the last row up to the end column; over a single row
\* the characters [start_col, end_col).
RowsOfRange(ls, range) ==
    LET start_row == range[1][1]
        start_col == range[1][2]
        end_row == range[2][1]
        end_col == range[2][2]
    IN IF start_row = end_row
       THEN << SubSeq(ls[start_row + 1], start_col + 1, end_col) >>
       ELSE [i \in 1..(end_row - start_row + 1) |->
               LET line == ls[start_row + i]
               IN IF i = 1 THEN Drop(line, start_col)
                  ELSE IF start_row + i - 1 = end_row THEN Take(line, end_col)
                  ELSE line]

\* The last key event was 'y' on a character-wise selection.
CharYanked ==
    /\ pre.arm = "VisualYank"
    /\ pre.mode = "Visual"
    /\ result = "Ok"
    /\ IsSome(SelectionRange(PreArea))

\* C31: 'y' in Visual mode stores one string per selected row (first row from
\* the start column to its end, interior rows whole, last row up to the end
\* column; a single row gives the characters [start_col, end_col)), leaves
\* the document lines unchanged and makes the mode Normal.
C31_CharYankStoresRows ==
    CharYanked =>
        /\ yanked = RowsOfRange(pre.lines, PreRange)
        /\ textarea.lines = pre.lines
        /\ mode = "Normal"

\* 'y' on a selection that starts at the end of the first row and ends in the
\* second: the register holds the whole first row.
C31_Witness ==
    /\ CharYanked
    /\ PreRange[1][1] < PreRange[2][1]
    /\ PreRange[1][2] = Len(pre.lines[PreRange[1][1] + 1])
    /\ pre.lines[PreRange[1][1] + 1] # <<>>
    /\ yanked[1] = pre.lines[PreRange[1][1] + 1]
    /\ textarea.lines = pre.lines
    /\ mode = "Normal"

(* A request to open a document that returns an error. *)

\* The last key event asked for a document: a dated note, a search result,
\* back or forward.
OpenRequested ==
    \/ OpenedNote
    \/ pre.arm \in {"NormalBack", "NormalForward", "SearchEnter"}

\* The session is as the last key event found it.
SessionAsBefore ==
    /\ history = pre.history
    /\ history_index = pre.history_index
    /\ file = pre.file
    /\ textarea.lines = pre.lines
    /\ tags = pre.tags
    /\ backlinks = pre.backlinks
    /\ mode = pre.mode

\* C32: a request to open a document that returns an error leaves the
\* history and its index, the current document, the lines, the tags, the
\* backlinks and the mode as they were before the request.
C32_FailedOpenKeepsSession ==
    (OpenRequested /\ result = "Err") => SessionAsBefore

\* Going back returned an error after the index had moved and the document
\* had been replaced.
C32_Witness ==
    /\ pre.arm = "NormalBack" /\ result = "Err"
    /\ history_index = pre.history_index - 1
    /\ file # pre.file
    /\ file = history[history_index + 1]

(* Leaving Search and TagFiles for Normal mode. *)

\* The last key event, Escape or Enter, led from Search or TagFiles to Normal.
LeftSearch ==
    /\ pre.mode \in {"Search", "TagFiles"}
    /\ event.code \in {"Esc", "Enter"}
    /\ result = "Ok"
    /\ mode = "Normal"

\* The search state is inactive with no type, an empty query and no results.
SearchCleared ==
    /\ ~search_state.active
    /\ search_state.search_type = "None"
    /\ search_state.query = <<>>
    /\ search_state.results = <<>>

\* C33: when the mode is Normal after Escape or Enter in Search or TagFiles,
\* the search state is inactive with type None, empty query and empty
\* results, and the list of tag files is empty.
C33_LeavingSearchClearsState ==
    LeftSearch => SearchCleared /\ tag_files.files = <<>>

\* Escape in TagFiles led to Normal with the tag search still active and its
\* results kept.
C33_Witness ==
    /\ LeftSearch
    /\ pre.arm = "TagFilesEsc"
    /\ tag_files.files = <<>>
    /\ search_state.active
    /\ search_state.search_type = "Tags"
    /\ search_state.results # <<>>

(* The history grows by one entry with every open. *)

\* The line the cursor was on when the last key event arrived.
PreLine == pre.lines[pre.cursor[1] + 1]

\* The last key event found a selected search result that names a document.
PreHit ==
    /\ pre.search_state.search_type \in {"Backlinks", "Files"}
    /\ IsSome(pre.search_state.selected)
    /\ Unwrap(pre.search_state.selected) < Len(pre.search_state.results)
    /\ IsSome(pre.search_state.results[Unwrap(pre.search_state.selected) + 1][2])

\* The last key event opened a document other than by back or forward: a
\* dated note, a search result, a file of a tag, the link or backlink of the
\* cursor line, the selected entry of the file tree.
Opened ==
    /\ result = "Ok"
    /\ \/ OpenedNote
       \/ pre.arm = "SearchEnter" /\ PreHit
       \/ /\ pre.arm = "TagFilesEnter"
          /\ IsSome(pre.tag_files.selected)
          /\ Unwrap(pre.tag_files.selected) < Len(pre.tag_files.files)
       \/ /\ pre.arm = "NormalEnter"
          /\ pre.view = "Editor"
          /\ \/ \E i \in 1..Len(pre.backlinks) : Contains(PreLine, pre.backlinks[i][1])
             \/ IsSome(extract_wikilink(PreLine))
       \/ pre.arm = "FileTreeEnter" /\ IsSome(pre.tree.selected)

\* C34: every successful open other than back and forward leaves the history
\* one entry longer than its part up to the current index, also when the
\* document is in the history already or is the current one; back and
\* forward change neither the length nor the entries of the history.
C34_OpenAddsOneEntry ==
    /\ Opened =>
          /\ Len(history) = pre.history_index + 2
          /\ history = Append(SubSeq(pre.history, 1, pre.history_index + 1), file)
          /\ history_index = pre.history_index + 1
    /\ pre.arm \in {"NormalBack", "NormalForward"} => history = pre.history

\* The current document was opened again: the history has it twice.
C34_Witness ==
    /\ Opened
    /\ file = pre.file
    /\ pre.history = <<pre.file>>
    /\ history = <<pre.file, pre.file>>
    /\ history_index = 1

(* The current history entry and the open document. *)

\* C35: after every key event, handled with success or with an error, the
\* history entry at history_index is the open document (file_path, file_id).
C35_CurrentEntryIsOpenDocument ==
    /\ history_index + 1 \in DOMAIN history
    /\ history[history_index + 1] = file

\* Going back returned an error: the index has moved, and the document of
\* the entry it moved to is the open one.
C35_Witness ==
    /\ pre.arm = "NormalBack" /\ result = "Err"
    /\ history_index = pre.history_index - 1
    /\ history[history_index + 1] # pre.file
    /\ history[history_index + 1] = file

(* Key sequences across Normal mode and the file tree. *)

\* The last key event led from the file tree to Normal mode or back.
CrossedTree ==
    /\ pre.arm # "new"
    /\ result = "Ok"
    /\ <<pre.mode, mode>> \in {<<"FileTree", "Normal">>, <<"Normal", "FileTree">>}

\* C36: whenever the mode changes between FileTree and Normal the prefix
\* buffer is empty, so that a prefix begun in one mode is never completed
\* against the table of the other.
C36_NoPrefixAcrossModes ==
    CrossedTree => key_sequence = <<>>

\* Escape in the file tree led to Normal mode with the 'g' typed in the file
\* tree still in the buffer: the next 'g' completes "gg".
C36_Witness ==
    /\ CrossedTree
    /\ pre.arm = "FileTreeEsc"
    /\ key_sequence = <<"g">>
    /\ Append(key_sequence, "g") = SeqGG

(* The selected index of the lists of Complete, Search and TagFiles. *)

\* The selection sel, when present, is an index of the list.
InList(sel, list) == IsSome(sel) => Unwrap(sel) < Len(list)

\* C37: in Complete, Search and TagFiles the selected index, when present, is
\* below the length of the suggestions, the results and the tag files; Down
\* on an empty list neither overflows the length computation nor selects an
\* index.
C37_SelectionInsideList ==
    /\ result # "Panic"
    /\ mode = "Complete" =>
          InList(completion_state.selected, completion_state.suggestions)
    /\ mode = "Search" => InList(search_state.selected, search_state.results)
    /\ mode = "TagFiles" => InList(tag_files.selected, tag_files.files)

\* Down in Complete mode with no suggestion: the subtraction overflowed, or
\* it wrapped and index 1 of the empty list is selected.
C37_Witness ==
    /\ pre.arm = "CompleteDown"
    /\ pre.completion_state.suggestions = <<>>
    /\ completion_state.suggestions = <<>>
    /\ result = "Panic" \/ completion_state.selected = Some(1)

(* The selection and the anchor of the file tree. *)

\* The row o, when present, is a row of the visible items.
InTree(o) == IsSome(o) => Unwrap(o) < Len(tree.visible_items)

\* C38: in FileTree and FileTreeVisual the selected row and the visual
\* anchor, when present, are below the number of visible items, so that no
\* access visible_items[selected] is out of bounds, also after the last
\* visible item was deleted and with an empty tree.
C38_TreeSelectionInBounds ==
    /\ result # "Panic"
    /\ mode \in {"FileTree", "FileTreeVisual"} =>
          InTree(tree.selected) /\ InTree(tree.visual_anchor)

\* 'd' on the last of two files: one file is left and row 1 is selected.
C38_Witness ==
    /\ pre.arm = "FileTreeDelete" /\ result = "Ok"
    /\ Len(pre.tree.visible_items) = 2
    /\ pre.tree.selected = Some(1)
    /\ Len(tree.visible_items) = 1
    /\ tree.selected = Some(1)
    /\ mode = "FileTree"

(* Keys other than 'x' and 'd' in Visual and VisualBlock mode. *)

\* The last key event was handled in Visual or VisualBlock mode and was
\* neither 'x' nor 'd'.
OtherVisualKey ==
    /\ pre.arm # "new"
    /\ pre.mode \in {"Visual", "VisualBlock"}
    /\ ~(event.code = "Char" /\ event.ch \in {"x", "d"})

\* C39: in Visual and VisualBlock mode every key other than 'x' and 'd'
\* leaves the document lines unchanged: movement keys and any other
\* character may move the cursor but insert or delete no text.
C39_OtherKeysKeepLines ==
    OtherVisualKey => textarea.lines = pre.lines

\* 'h' pressed in Visual mode with nothing selected: the line the cursor is
\* on has an "h" more.
C39_Witness ==
    /\ OtherVisualKey
    /\ pre.arm = "VisualChar"
    /\ event.ch = "h"
    /\ pre.lines = DocVisualKeys
    /\ pre.cursor = <<0, 0>>
    /\ textarea.lines = << <<"h", "a">>, <<"b">> >>
    /\ mode = pre.mode

(***************************************************************************)
(* C40: after any sequence of key events, failed ones included, the mode   *)
(* is Complete exactly when the completion state is active, and in every   *)
(* other mode the completion state is inactive with type None.             *)
(***************************************************************************)
C40_CompleteIffActive ==
    /\ (mode = "Complete") <=> completion_state.active
    /\ mode # "Complete" =>
           /\ ~completion_state.active
           /\ completion_state.completion_type = "None"

\* a key of Complete mode has failed, or the popup was left for Insert mode
C40_Witness ==
    \/ /\ result = "Err"
       /\ pre.mode = "Complete"
       /\ mode = "Complete"
       /\ completion_state.active
    \/ /\ result = "Ok"
       /\ pre.mode = "Complete"
       /\ mode = "Insert"
       /\ ~completion_state.active

====
